---- MODULE Spec2Model ----
(***************************************************************************)
(* Hadron: the streaming pipeline of apps/hadron.                          *)
(*   ingest -> normalize -> broadcast bus -> router -> per-shard engine    *)
(*          -> strategy -> coordinator -> gateway -> recorder              *)
(* Each stage is a tokio task; the edges are tokio channels.  A stage is   *)
(* modelled by one action per loop iteration, split only where the code    *)
(* awaits a send that can block.                                           *)
(*                                                                         *)
(* Values.  Option<T> is a sequence: <<>> is None, <<x>> is Some(x).       *)
(* Decimal prices are integers counted in cents; sma_5 is counted in       *)
(* tenths of a cent (rust_decimal's sum / 5 is exact with one more         *)
(* digit).  A tick's timestamp is its publication index, which also        *)
(* identifies the tick.                                                    *)
(***************************************************************************)
EXTENDS Integers, Sequences, FiniteSets, TLC

\* ------------------------------------------------------------------ bounds
\* Ticks published in one behaviour.
MaxTicks == 4
\* Ticks published in the behaviours of the sharding specification.
MaxShardTicks == 3
\* Instrument ids are 1..MaxInstrument.
MaxInstrument == 2
\* HADRON_NUM_SHARDS ranges over 1..MaxShards.
MaxShards == 2
\* Channel capacities, scaled down from main.rs (10000, 10000, 1000, 100):
\* the broadcast bus and the Fast, Warm and Cold queues.
BusCap == 2
FastCap == 2
WarmCap == 1
ColdCap == 1
\* Capacity of the decision channel, scaled down from 1000.
DecisionCap == 1
\* Recorder.batch_size, scaled down from 100.
BatchSize == 2
\* Capacities of the order-intent and execution channels, scaled down from 1000.
IntentCap == 1
ExecutionCap == 1
\* Decisions a strategy emits in one behaviour of the order specification,
\* and ticks published in it.
MaxDecisions == 2
MaxOrderTicks == 1
\* Turns of the Engine's loop on closed queues followed in one behaviour.
MaxClosedPolls == 2
\* Calls of connect_and_stream per ingestor and messages read on one session.
MaxSessions == 2
MaxFrames == 2
\* Numbered credential slots per venue, scaled down from 10.
KeySlots == 1
\* Trade ticks the Router forwards in the behaviours of the strategy
\* specification.
MaxStrategyTicks == 5
\* Trade ticks the Router forwards in the behaviours of the isolation
\* specification.
MaxIsolationTicks == 6
\* Ticks the Router forwards in the behaviours of the history specification.
MaxHistoryTicks == 6
\* Raw events the Normalizer receives in one behaviour.
MaxRaw == 3
\* The bid and ask of a prediction-market ticker (in cents of probability).
YesBid == 45
YesAsk == 47

\* ------------------------------------------------------------- value sets
Instruments == 1..MaxInstrument
TickTypes == {"Trade", "Quote", "BookUpdate", "Other"}
Priorities == {"Fast", "Warm", "Cold", "Drop"}
\* The price every tick of the routing specifications carries (in cents).
FlatPrice == 10000

None == <<>>
Some(x) == <<x>>

Max(a, b) == IF a > b THEN a ELSE b

\* --------------------------------------------------------------- SipHash
\* std::collections::hash_map::DefaultHasher::new() is SipHash-1-3 with the
\* key (0, 0).  A 64-bit word is the tuple <<l0, l1, l2, l3>> of its four
\* 16-bit limbs, least significant first.
Limb == 65536

\* a ^ b on n-bit values.
RECURSIVE BitXor(_, _, _)
BitXor(a, b, n) ==
    IF n = 0 THEN 0
    ELSE ((a + b) % 2) + 2 * BitXor(a \div 2, b \div 2, n - 1)

\* i64 -> u64 of a non-negative id below 2^30 (write_i64 hashes the
\* little-endian bytes of the value, one 8-byte block).
WordOfId(n) == <<n % Limb, n \div Limb, 0, 0>>

WXor(a, b) ==
    <<BitXor(a[1], b[1], 16), BitXor(a[2], b[2], 16),
      BitXor(a[3], b[3], 16), BitXor(a[4], b[4], 16)>>

\* rotate_left(k): limb i takes the low bits of limb i - k \div 16 and the
\* high bits of the limb below it.
WRotl(a, k) ==
    LET q == k \div 16
        r == k % 16
        src(i) == a[((i - 1 - q + 8) % 4) + 1]
        out(i) == ((src(i) * (2 ^ r)) % Limb) + (src(i - 1) \div (2 ^ (16 - r)))
    IN  <<out(1), out(2), out(3), out(4)>>

\* wrapping_add: limb-wise with carry, the carry out of the top limb dropped.
WAdd(a, b) ==
    LET s1 == a[1] + b[1]
        s2 == a[2] + b[2] + (s1 \div Limb)
        s3 == a[3] + b[3] + (s2 \div Limb)
        s4 == a[4] + b[4] + (s3 \div Limb)
    IN  <<s1 % Limb, s2 % Limb, s3 % Limb, s4 % Limb>>

\* One SipRound over the state <<v0, v1, v2, v3>>.
SipRound(v) ==
    LET a0 == WAdd(v[1], v[2])
        a1 == WXor(WRotl(v[2], 13), a0)
        b0 == WRotl(a0, 32)
        a2 == WAdd(v[3], v[4])
        a3 == WXor(WRotl(v[4], 16), a2)
        c0 == WAdd(b0, a3)
        c3 == WXor(WRotl(a3, 21), c0)
        c2 == WAdd(a2, a1)
        c1 == WXor(WRotl(a1, 17), c2)
    IN  <<c0, c1, WRotl(c2, 32), c3>>

\* Hasher::write of one 8-byte block m, then Hasher::finish (length 8).
SipHash13(m) ==
    LET k0 == <<25973, 28787, 28005, 29551>>   \* 0x736f6d6570736575
        k1 == <<28525, 28260, 29281, 25711>>   \* 0x646f72616e646f6d
        k2 == <<29281, 28261, 26469, 27769>>   \* 0x6c7967656e657261
        k3 == <<25971, 31092, 25698, 29797>>   \* 0x7465646279746573
        len == <<0, 0, 0, 2048>>               \* 8 << 56
        ff == <<255, 0, 0, 0>>
        s1 == SipRound(<<k0, k1, k2, WXor(k3, m)>>)
        s2 == <<WXor(s1[1], m), s1[2], s1[3], WXor(s1[4], len)>>
        s3 == SipRound(s2)
        s4 == <<WXor(s3[1], len), s3[2], WXor(s3[3], ff), s3[4]>>
        s5 == SipRound(SipRound(SipRound(s4)))
    IN  WXor(WXor(s5[1], s5[2]), WXor(s5[3], s5[4]))

\* (w as usize) % n for a small n, by Horner's rule from the top limb.
WMod(w, n) ==
    LET r4 == w[4] % n
        r3 == (r4 * Limb + w[3]) % n
        r2 == (r3 * Limb + w[2]) % n
    IN  (r2 * Limb + w[1]) % n

\* The hash of every instrument id of the model, computed once.
HashOfInstrument == [i \in Instruments |-> SipHash13(WordOfId(i))]

\* ------------------------------------------------------------------ state
VARIABLES
    num_shards,     \* Router.num_shards (HADRON_NUM_SHARDS, default 1)
    published,      \* every tick sent on the bus so far, in order (history)
    bus,            \* the ticks the broadcast channel still retains
    cursor,         \* per bus consumer: the position of its next receive
    received,       \* per bus consumer: timestamps of the ticks it got (history)
    lagged,         \* per bus consumer: the sum of the n of its Lagged(n)
    bus_closed,     \* every broadcast Sender is dropped
    routerPc,       \* "recv" | "send" (awaiting room in a queue) | "done"
                    \* (run returned and the Router with its senders is dropped)
    routerTick,     \* Option: the tick the Router holds while it awaits
    queues,         \* the Fast, Warm and Cold mpsc queues of shard 0
    enqueued,       \* per queue: timestamps in the order the Router sent (history)
    enginePc,       \* "select" | "send" (awaiting room for a decision)
    engineDecision, \* Option: the decision the Engine holds while it awaits
    instruments,    \* Engine.instruments: instrument id -> InstrumentState
    processed,      \* the ticks process_tick handled, in order, each with
                    \* the queue it came from (history)
    lastPick,       \* Option: the branch select! took last and what was ready
    closed_polls,   \* turns of the Engine's loop in which recv returned None (history)
    decisions,      \* the decision mpsc channel (engine -> coordinator)
    emittedDecisions, \* how many decisions were sent on that channel (history)
    next_uuid,      \* the next value Uuid::new_v4() returns
    coordinatorIntent, \* Option: the intent the Coordinator holds while it awaits
    intents,        \* the order-intent mpsc channel (coordinator -> gateway)
    simulation_mode, \* Gateway.simulation_mode (HADRON_SIMULATION_MODE)
    gatewayPc,      \* "run" (at rx.recv or the send) | "process" (in process_order,
                    \* awaiting the store) | "exited" (Gateway::run returned)
    gatewayOrder,   \* the process_order call waiting for the store, if any
    gatewayExec,    \* Option: the execution the Gateway holds while it awaits
    store_failed,   \* ids of the intents a store statement failed for (history)
    hadron_order_intents,    \* rows of the intents table
    hadron_order_executions, \* rows of the executions table
    executions,     \* the execution mpsc channel (gateway -> recorder)
    emitted,        \* executions the Gateway sent downstream (history)
    tick_batch,     \* Recorder.tick_batch
    recorderPc,     \* "run" (in select!) | "flush" (awaiting the store) |
                    \* "failed" (run returned Err) | "done" (returned Ok)
    flushing,       \* flush_ticks in progress: its local batch, the statement
                    \* awaited, and where its caller goes after Ok
    hadron_ticks,   \* rows of the tick table
    dropped,        \* ticks of the batches a failed flush discarded (history)
    ingestPc,       \* per ingestor: "connect" | "subscribe" | "stream" | "send" | "pong" | "sleep"
    sleepLeft,      \* per ingestor: seconds left of tokio::time::sleep
    sessions,       \* per ingestor: calls of connect_and_stream so far (history)
    frames,         \* per ingestor: messages read on the current session (history)
    authenticated,  \* per ingestor: the local `authenticated` of the session
    subscribed,     \* per ingestor: the local `subscribed` of the session
    heard,          \* per ingestor: statuses and trades read on the session (history)
    wire,           \* per ingestor: messages written on the current session
    forwarded,      \* per ingestor: raw events sent on raw_tx from the session
    trades_read,    \* per ingestor: trade payloads read once auth_success came
    pending,        \* the payloads of the text message the equities session is
                    \* handling, from the one whose await is outstanding
    shutdown_requested, \* the root cancellation signal is raised
    normPc,         \* "run" (at rx.recv) | "lookup" (in normalize, awaiting the
                    \* store) | "done" (Normalizer::run returned)
    normalizing,    \* the normalize call waiting for the store, if any: its raw
                    \* event, the answers so far and the query awaited
    raw_closed,     \* every Sender of the raw-event channel is dropped
    raw_handled,    \* raw events the Normalizer received so far (history)
    symbol_cache,   \* Normalizer.symbol_cache: ticker -> Option id
    instruments_table, \* the store: stored ticker -> ids of its active rows
    resolved,       \* per ticker: the ids lookup_instrument_id returned (history)
    last_normalize, \* Option: the last raw event and what normalize returned
    env,            \* the process environment: variable -> Option value
    api_keys,       \* Option: what IngestManager::get_api_keys returned
    kalshi_keys     \* Option: what KalshiIngestManager::get_api_keys returned

busVars == <<published, bus, cursor, received, lagged, bus_closed>>
routerVars == <<num_shards, routerPc, routerTick, queues, enqueued>>
engineVars == <<enginePc, engineDecision, instruments, processed, lastPick,
                closed_polls, decisions>>
orderVars == <<emittedDecisions, next_uuid, coordinatorIntent, intents,
               simulation_mode, gatewayPc, gatewayOrder, gatewayExec, store_failed,
               hadron_order_intents, hadron_order_executions, executions,
               emitted>>
recorderVars == <<tick_batch, recorderPc, flushing, hadron_ticks, dropped>>
ingestVars == <<ingestPc, sleepLeft, sessions, frames, authenticated, subscribed,
                heard, wire, forwarded, trades_read, pending, shutdown_requested>>
normVars == <<normPc, normalizing, raw_closed, raw_handled, symbol_cache, instruments_table,
              resolved, last_normalize>>
credVars == <<env, api_keys, kalshi_keys>>
vars == <<busVars, routerVars, engineVars, orderVars, recorderVars, ingestVars,
          normVars, credVars>>

Consumers == {"router", "recorder"}
\* The connection ids main gives the ingestors it spawns: the one equities
\* manager and the first prediction-market manager.
Ingestors == {"polygon_default", "kalshi_1"}
QueueNames == {"Fast", "Warm", "Cold"}
\* The shard id main gives its one Engine (Engine::new(0, ...)).
EngineShardId == 0

Tick(ts, id, kind, price) ==
    [timestamp |-> ts, instrument_id |-> id, tick_type |-> kind, price |-> price]

\* --------------------------------------------------------- broadcast bus
\* tokio::sync::broadcast: the channel keeps the last BusCap values; each
\* receiver has its own cursor.

\* Position (0-based) of the oldest tick the bus retains.
BusOldest == Len(published) - Len(bus)

\* broadcast::Sender::send: never waits; at capacity the oldest value goes.
BusSendWaiting(tick) ==
    /\ Len(bus) = BusCap => \A c \in {"router", "recorder"} : cursor[c] > BusOldest
    /\ published' = Append(published, tick)
    /\ bus' = IF Len(bus) < BusCap THEN Append(bus, tick)
              ELSE Append(Tail(bus), tick)
BusSend(tick) ==
    /\ published' = Append(published, tick)
    /\ bus' = IF Len(bus) < BusCap THEN Append(bus, tick)
              ELSE Append(Tail(bus), tick)

\* broadcast::Receiver::recv for consumer c, when a value is pending: the
\* result and the consumer's next cursor.
BusRecvNewest(c) ==
    IF cursor[c] < BusOldest
    THEN [kind |-> "Lagged", n |-> BusOldest - cursor[c],
          next |-> Len(published) - 1]
    ELSE [kind |-> "Ok", tick |-> bus[cursor[c] - BusOldest + 1],
          next |-> cursor[c] + 1]
BusRecvUnchecked(c) ==
    [kind |-> "Ok", tick |-> bus[Max(1, cursor[c] - BusOldest + 1)],
     next |-> cursor[c] + 1]
BusRecv(c) ==
    IF cursor[c] < BusOldest
    THEN [kind |-> "Lagged", n |-> BusOldest - cursor[c], next |-> BusOldest]
    ELSE [kind |-> "Ok", tick |-> bus[cursor[c] - BusOldest + 1],
          next |-> cursor[c] + 1]

\* recv would return now (a value is pending) rather than wait.
BusPending(c) == cursor[c] < Len(published)

\* The effect of a receive on the consumer's cursor and on the histories.
BusTake(c, r) ==
    /\ cursor' = [cursor EXCEPT ![c] = r.next]
    /\ IF r.kind = "Lagged"
       THEN /\ lagged' = [lagged EXCEPT ![c] = @ + r.n]
            /\ UNCHANGED received
       ELSE /\ received' = [received EXCEPT ![c] = Append(@, r.tick.timestamp)]
            /\ UNCHANGED lagged

\* Normalizer::run, Ok(Some(tick)): self.tx.send(tick) of a tick drawn from
\* the given kinds, instruments and prices, while fewer than limit were sent.
Publish(kinds, ids, prices, limit) ==
    /\ ~bus_closed
    /\ Len(published) < limit
    /\ \E k \in kinds, i \in ids, p \in prices :
          BusSend(Tick(Len(published), i, k, p))
    /\ UNCHANGED <<cursor, received, lagged, bus_closed>>

\* Normalizer::run returns (raw_rx yields None) and main's tick_tx is gone:
\* the last broadcast Sender is dropped.
CloseBus ==
    /\ ~bus_closed
    /\ bus_closed' = TRUE
    /\ UNCHANGED <<published, bus, cursor, received, lagged, routerVars,
                   engineVars, orderVars, recorderVars, ingestVars, normVars, credVars>>

\* ----------------------------------------------------------------- router
classify_priority_all_fast(tick) == "Fast"
classify_priority(tick) ==
    CASE tick.tick_type = "Trade" -> "Fast"
      [] tick.tick_type = "Quote" -> "Warm"
      [] OTHER -> "Cold"

assign_shard(tick, n) == WMod(HashOfInstrument[tick.instrument_id], n)

QueueCap(q) ==
    CASE q = "Fast" -> FastCap
      [] q = "Warm" -> WarmCap
      [] OTHER -> ColdCap

\* mpsc::Sender::send completes at once iff the channel has room.
HasRoom(q) == Len(queues[q]) < QueueCap(q)

\* The tick enters the queue of its priority.
Enqueue(q, tick) ==
    /\ queues' = [queues EXCEPT ![q] = Append(@, tick)]
    /\ enqueued' = [enqueued EXCEPT ![q] = Append(@, tick.timestamp)]

\* One iteration of Router::run up to the end or to a send that must wait.
RouterRecv ==
    /\ routerPc = "recv"
    /\ BusPending("router")
    /\ LET r == BusRecv("router") IN
       /\ BusTake("router", r)
       /\ IF r.kind = "Lagged"
          THEN UNCHANGED <<routerPc, routerTick, queues, enqueued>>
          ELSE LET priority == classify_priority(r.tick) IN
               IF priority = "Drop"
               THEN UNCHANGED <<routerPc, routerTick, queues, enqueued>>
               ELSE IF HasRoom(priority)
               THEN /\ Enqueue(priority, r.tick)
                    /\ UNCHANGED <<routerPc, routerTick>>
               ELSE /\ routerPc' = "send"
                    /\ routerTick' = Some(r.tick)
                    /\ UNCHANGED <<queues, enqueued>>
    /\ UNCHANGED <<ingestVars, normVars, credVars, num_shards, published, bus, bus_closed, engineVars,
                   orderVars, recorderVars>>

\* Router::run, Err(RecvError::Closed): break.  run returns Ok and the task
\* drops the Router, and with it fast_tx, warm_tx and cold_tx.
RouterClosed ==
    /\ routerPc = "recv"
    /\ bus_closed
    /\ ~BusPending("router")
    /\ routerPc' = "done"
    /\ UNCHANGED <<ingestVars, normVars, credVars, num_shards, routerTick, queues, enqueued, busVars,
                   engineVars, orderVars, recorderVars>>

\* The send the Router awaited completes once the queue has room.
RouterSend ==
    /\ routerPc = "send"
    /\ LET tick == routerTick[1]
           priority == classify_priority(tick) IN
       /\ HasRoom(priority)
       /\ Enqueue(priority, tick)
    /\ routerPc' = "recv"
    /\ routerTick' = None
    /\ UNCHANGED <<ingestVars, normVars, credVars, num_shards, busVars, engineVars, orderVars, recorderVars>>

\* ----------------------------------------------------------------- engine
\* InstrumentState::new
NewInstrumentState(id) ==
    [instrument_id |-> id, last_price |-> None, last_timestamp |-> None,
     tick_count |-> 0, sma_5 |-> None, price_history |-> <<>>]

RECURSIVE SumPrices(_)
SumPrices(h) == IF h = <<>> THEN 0 ELSE Head(h)[2] + SumPrices(Tail(h))

\* InstrumentState::update.  sma_5 = sum / 5 in tenths of a cent is 2 * sum.
update_early(state, tick) ==
    LET pushed == Append(state.price_history, <<tick.timestamp, tick.price>>)
        history == IF Len(pushed) > 5 THEN Tail(pushed) ELSE pushed
    IN  [state EXCEPT
            !.last_price = Some(tick.price),
            !.last_timestamp = Some(tick.timestamp),
            !.tick_count = @ + 1,
            !.price_history = history,
            !.sma_5 = IF Len(history) >= 4
                      THEN Some((10 * SumPrices(history)) \div Len(history))
                      ELSE @]
update_drops_newest(state, tick) ==
    LET pushed == Append(state.price_history, <<tick.timestamp, tick.price>>)
        history == IF Len(pushed) > 5 THEN SubSeq(pushed, 1, 5) ELSE pushed
    IN  [state EXCEPT
            !.last_price = Some(tick.price),
            !.last_timestamp = Some(tick.timestamp),
            !.tick_count = @ + 1,
            !.price_history = history,
            !.sma_5 = IF Len(history) >= 5 THEN Some(2 * SumPrices(history))
                      ELSE @]
update_mean_before_eviction(state, tick) ==
    LET pushed == Append(state.price_history, <<tick.timestamp, tick.price>>)
        history == IF Len(pushed) > 5 THEN Tail(pushed) ELSE pushed
    IN  [state EXCEPT
            !.last_price = Some(tick.price),
            !.last_timestamp = Some(tick.timestamp),
            !.tick_count = @ + 1,
            !.price_history = history,
            !.sma_5 = IF Len(pushed) >= 5 THEN Some(2 * SumPrices(pushed))
                      ELSE @]
update(state, tick) ==
    LET pushed == Append(state.price_history, <<tick.timestamp, tick.price>>)
        history == IF Len(pushed) > 5 THEN Tail(pushed) ELSE pushed
    IN  [state EXCEPT
            !.last_price = Some(tick.price),
            !.last_timestamp = Some(tick.timestamp),
            !.tick_count = @ + 1,
            !.price_history = history,
            !.sma_5 = IF Len(history) >= 5 THEN Some(2 * SumPrices(history))
                      ELSE @]

\* SimpleSMAStrategy::evaluate: Option<StrategyDecision>.  price is in cents
\* and sma in tenths of a cent: price > sma * 1.01 is price * 1000 > sma * 101.
evaluate_inclusive(tick, state, now) ==
    IF state.sma_5 = None THEN None
    ELSE LET kind == IF tick.price * 1000 >= state.sma_5[1] * 101 THEN "Buy"
                     ELSE IF tick.price * 1000 <= state.sma_5[1] * 99 THEN "Sell"
                     ELSE "" IN
         IF kind = "" THEN None
         ELSE Some([strategy_id |-> "simple_sma_v1",
                    instrument_id |-> tick.instrument_id,
                    timestamp |-> now,
                    decision_type |-> [kind |-> kind, quantity |-> 10,
                                       limit_price |-> None],
                    confidence |-> 6,
                    metadata |-> [price |-> tick.price, sma_5 |-> state.sma_5[1],
                                  tick_count |-> state.tick_count]])
evaluate(tick, state, now) ==
    IF state.sma_5 = None THEN None
    ELSE LET sma == state.sma_5[1]
             price == tick.price
             decision_type ==
                 IF price * 1000 > sma * 101
                 THEN Some([kind |-> "Buy", quantity |-> 10, limit_price |-> None])
                 ELSE IF price * 1000 < sma * 99
                 THEN Some([kind |-> "Sell", quantity |-> 10, limit_price |-> None])
                 ELSE None
         IN  IF decision_type = None THEN None
             ELSE Some([strategy_id |-> "simple_sma_v1",
                        instrument_id |-> tick.instrument_id,
                        timestamp |-> now,
                        decision_type |-> decision_type[1],
                        confidence |-> 6,
                        metadata |-> [price |-> price, sma_5 |-> sma,
                                      tick_count |-> state.tick_count]])

\* instruments.entry(id).or_insert_with(InstrumentState::new), then update.
UpdatedStateOfFirst(tick) ==
    update(IF 1 \in DOMAIN instruments
           THEN instruments[1]
           ELSE NewInstrumentState(tick.instrument_id), tick)
UpdatedState(tick) ==
    update(IF tick.instrument_id \in DOMAIN instruments
           THEN instruments[tick.instrument_id]
           ELSE NewInstrumentState(tick.instrument_id), tick)

\* mpsc::Receiver::recv on a non-empty channel: the oldest value leaves.
MpscRecvLifo(ch) == [value |-> ch[Len(ch)], rest |-> SubSeq(ch, 1, Len(ch) - 1)]
MpscRecv(ch) == [value |-> Head(ch), rest |-> Tail(ch)]

\* The branches of the select! of Engine::run that are ready: select! polls
\* its branches in a random order and takes the first that is ready.
ReadyBranches == {q \in QueueNames : queues[q] # <<>>}

\* Engine::run: one turn of the loop.  select! takes a ready branch, the
\* tick leaves its queue and process_tick runs up to the end or to a
\* decision send that must wait.
EngineStep ==
    /\ enginePc = "select"
    /\ \E q \in ReadyBranches :
          LET got == MpscRecv(queues[q])
              tick == got.value
              state == UpdatedState(tick)
              decision == evaluate(tick, state, Len(published)) IN
          /\ queues' = [queues EXCEPT ![q] = got.rest]
          /\ lastPick' = Some([queue |-> q, ready |-> ReadyBranches])
          /\ processed' = Append(processed, [timestamp |-> tick.timestamp,
                                             instrument_id |-> tick.instrument_id,
                                             queue |-> q,
                                             price |-> tick.price])
          /\ instruments' =
                [i \in DOMAIN instruments \cup {tick.instrument_id} |->
                    IF i = tick.instrument_id THEN state ELSE instruments[i]]
          /\ IF decision = None
             THEN UNCHANGED <<enginePc, engineDecision, decisions>>
             ELSE IF Len(decisions) < DecisionCap
             THEN /\ decisions' = Append(decisions, decision[1])
                  /\ UNCHANGED <<enginePc, engineDecision>>
             ELSE /\ enginePc' = "send"
                  /\ engineDecision' = decision
                  /\ UNCHANGED decisions
    /\ UNCHANGED <<ingestVars, normVars, credVars, busVars, num_shards, routerPc, routerTick,
                   enqueued, closed_polls,
                   orderVars, recorderVars>>

\* The instruments and prices (in cents) of the strategy specification:
\* 9950, 9950, 9900, 10100 then 10100 has the mean 10000 and a price at
\* exactly 101% of it; 10100, 10100, 9950, 9950 then 9900 at exactly 99%.
StrategyInstruments == {1, 2}
StrategyPrices == {9900, 9950, 10100}

\* Router::run sends a trade on fast_tx: the tick is drawn from the trades
\* the bus can carry.
RouterSendsTrades(ids, prices, limit) ==
    /\ Len(enqueued["Fast"]) < limit
    /\ HasRoom("Fast")
    /\ \E i \in ids, p \in prices :
          Enqueue("Fast", Tick(Len(enqueued["Fast"]), i, "Trade", p))
    /\ UNCHANGED <<ingestVars, normVars, credVars, busVars, num_shards, routerPc,
                   routerTick, engineVars, orderVars, recorderVars>>

RouterSendsTrade ==
    RouterSendsTrades(StrategyInstruments, StrategyPrices, MaxStrategyTicks)

\* The same with two prices 2% apart, for one tick more.
IsolationPrices == {9900, 10100}

RouterSendsTwoPrices ==
    RouterSendsTrades(StrategyInstruments, IsolationPrices, MaxIsolationTicks)

\* The ticks of the history specification, as <<kind, price in cents>>:
\* trades and quotes of one instrument, close enough that no decision is
\* made.
HistoryTicks == {<<"Trade", 10000>>, <<"Trade", 10050>>, <<"Quote", 10050>>}

\* Router::run sends a tick on the queue of its priority: the tick is
\* drawn from the trades and quotes the bus can carry.
RouterSendsMixed ==
    LET sent == Len(enqueued["Fast"]) + Len(enqueued["Warm"]) + Len(enqueued["Cold"]) IN
    /\ sent < MaxHistoryTicks
    /\ \E kp \in HistoryTicks :
          LET tick == Tick(sent, 1, kp[1], kp[2]) IN
          /\ HasRoom(classify_priority(tick))
          /\ Enqueue(classify_priority(tick), tick)
    /\ UNCHANGED <<ingestVars, normVars, credVars, busVars, num_shards, routerPc,
                   routerTick, engineVars, orderVars, recorderVars>>

\* The queues whose recv returns None at once: the sender is dropped and
\* the queue is empty.
ClosedBranches == {q \in QueueNames : routerPc = "done" /\ queues[q] = <<>>}

\* Engine::run: one turn of the loop in which select! takes the branch of a
\* closed, empty queue: `if let Some(tick)` does not match the None and the
\* loop goes round again.
EnginePollClosed ==
    /\ enginePc = "select"
    /\ closed_polls < MaxClosedPolls
    /\ \E q \in ClosedBranches :
          lastPick' = Some([queue |-> q, ready |-> ReadyBranches \cup ClosedBranches])
    /\ closed_polls' = closed_polls + 1
    /\ UNCHANGED <<ingestVars, normVars, credVars, busVars, routerVars, enginePc, engineDecision,
                   instruments, processed, decisions, orderVars, recorderVars>>

\* The decision send the Engine awaited completes once there is room.
EngineSend ==
    /\ enginePc = "send"
    /\ Len(decisions) < DecisionCap
    /\ decisions' = Append(decisions, engineDecision[1])
    /\ enginePc' = "select"
    /\ engineDecision' = None
    /\ UNCHANGED <<ingestVars, normVars, credVars, busVars, routerVars, instruments, processed, lastPick,
                   closed_polls,
                   orderVars, recorderVars>>

\* --------------------------------------------------------------- recorder
\* The rows the tick table gains when the store answers the statement
\* flush_ticks awaits (1 is begin, 2..Len+1 the INSERTs, Len+2 the commit):
\* the whole batch at a commit that succeeds, none before it, and none when
\* the transaction is dropped uncommitted.
FlushRowsNoTransaction(batch, awaited, ok) ==
    IF ok /\ awaited \in 2..(Len(batch) + 1) THEN <<batch[awaited - 1]>> ELSE <<>>
FlushRows(batch, awaited, ok) ==
    IF ok /\ awaited = Len(batch) + 2 THEN batch ELSE <<>>

\* Recorder::flush_ticks on the given buffer, up to its first await: an
\* empty buffer returns Ok at once (the caller is then at `after`);
\* otherwise mem::take empties tick_batch and the task waits for begin.
flush_ticks_keeps_batch(batch, after) ==
    IF batch = <<>>
    THEN /\ tick_batch' = batch
         /\ recorderPc' = after
         /\ UNCHANGED <<flushing, hadron_ticks, dropped>>
    ELSE /\ tick_batch' = batch
         /\ flushing' = Some([batch |-> batch, awaited |-> 1, after |-> after])
         /\ recorderPc' = "flush"
         /\ UNCHANGED <<hadron_ticks, dropped>>
flush_ticks(batch, after) ==
    IF batch = <<>>
    THEN /\ tick_batch' = batch
         /\ recorderPc' = after
         /\ UNCHANGED <<flushing, hadron_ticks, dropped>>
    ELSE /\ tick_batch' = <<>>
         /\ flushing' = Some([batch |-> batch, awaited |-> 1, after |-> after])
         /\ recorderPc' = "flush"
         /\ UNCHANGED <<hadron_ticks, dropped>>

\* Recorder::flush_ticks from one await to the next: the store answers the
\* awaited statement.  An error returns from run through the `?`s and the
\* batch is dropped with the uncommitted transaction; Ok goes on to the
\* next INSERT or the commit, and after the commit to the caller.
RecorderStore ==
    /\ recorderPc = "flush"
    /\ \E ok \in BOOLEAN :
          LET f == flushing[1] IN
          /\ hadron_ticks' = hadron_ticks \o FlushRows(f.batch, f.awaited, ok)
          /\ IF ~ok
             THEN /\ recorderPc' = "failed"
                  /\ flushing' = None
                  /\ dropped' = dropped + Len(f.batch)
             ELSE IF f.awaited < Len(f.batch) + 2
             THEN /\ flushing' = Some([f EXCEPT !.awaited = @ + 1])
                  /\ UNCHANGED <<recorderPc, dropped>>
             ELSE /\ recorderPc' = f.after
                  /\ flushing' = None
                  /\ UNCHANGED dropped
    /\ UNCHANGED <<ingestVars, normVars, credVars, busVars, routerVars, engineVars, orderVars,
                   tick_batch>>

\* Recorder::handle_tick
handle_tick_late(tick) ==
    LET pushed == Append(tick_batch, tick) IN
    IF Len(pushed) > BatchSize
    THEN flush_ticks(pushed, "run")
    ELSE /\ tick_batch' = pushed
         /\ UNCHANGED <<recorderPc, flushing, hadron_ticks, dropped>>
handle_tick(tick) ==
    LET pushed == Append(tick_batch, tick) IN
    IF Len(pushed) >= BatchSize
    THEN flush_ticks(pushed, "run")
    ELSE /\ tick_batch' = pushed
         /\ UNCHANGED <<recorderPc, flushing, hadron_ticks, dropped>>

\* Recorder::run, the tick_rx.recv() branch of select!.
RecorderRecv ==
    /\ recorderPc = "run"
    /\ BusPending("recorder")
    /\ LET r == BusRecv("recorder") IN
       /\ BusTake("recorder", r)
       /\ IF r.kind = "Lagged"
          THEN UNCHANGED recorderVars
          ELSE handle_tick(r.tick)
    /\ UNCHANGED <<ingestVars, normVars, credVars, published, bus, bus_closed, routerVars, engineVars,
                   orderVars>>

\* broadcast::Receiver::recv returns Closed: every Sender is dropped and the
\* consumer has taken (or lagged past) everything that was sent.
BusClosedFor(c) == bus_closed /\ ~BusPending(c)

\* Recorder::run, Err(RecvError::Closed): the final flush, then return Ok.
final_flush_skipped ==
    /\ recorderPc' = "done"
    /\ UNCHANGED <<tick_batch, flushing, hadron_ticks, dropped>>
final_flush == flush_ticks(tick_batch, "done")

\* Recorder::run, the tick_rx.recv() branch of select! on a closed bus.
RecorderClosed ==
    /\ recorderPc = "run"
    /\ BusClosedFor("recorder")
    /\ final_flush
    /\ UNCHANGED <<ingestVars, normVars, credVars, busVars, routerVars, engineVars, orderVars>>

\* Recorder::run, the flush_timer.tick() branch of select!.
RecorderTimerWhenFull ==
    /\ recorderPc = "run"
    /\ IF Len(tick_batch) >= BatchSize
       THEN flush_ticks(tick_batch, "run")
       ELSE UNCHANGED recorderVars
    /\ UNCHANGED <<ingestVars, normVars, credVars, busVars, routerVars, engineVars, orderVars>>
RecorderTimer ==
    /\ recorderPc = "run"
    /\ IF tick_batch # <<>>
       THEN flush_ticks(tick_batch, "run")
       ELSE UNCHANGED recorderVars
    /\ UNCHANGED <<ingestVars, normVars, credVars, busVars, routerVars, engineVars, orderVars>>

\* Recorder::run, the execution_rx.recv() branch: handle_execution logs.
RecorderExecution ==
    /\ recorderPc = "run"
    /\ executions # <<>>
    /\ executions' = Tail(executions)
    /\ UNCHANGED <<ingestVars, normVars, credVars, busVars, routerVars, engineVars, recorderVars,
                   emittedDecisions, next_uuid, coordinatorIntent, intents,
                   simulation_mode, gatewayPc, gatewayOrder, gatewayExec, store_failed,
                   hadron_order_intents, hadron_order_executions, emitted>>

\* ------------------------------------------------------------ coordinator
\* The decisions a Strategy may return (schemas::DecisionType), here for
\* instrument 1: market and limit orders, Hold and NoAction.
LimitPrice == 9900
DecisionTypes ==
    {[kind |-> "Buy", quantity |-> 10, limit_price |-> None],
     [kind |-> "Sell", quantity |-> 10, limit_price |-> Some(LimitPrice)],
     [kind |-> "Hold"],
     [kind |-> "NoAction"]}

\* Engine::process_tick, the decision branch: a decision any Strategy may
\* return is sent on decision_tx (the send waits while the channel is full).
StrategyDecides ==
    /\ emittedDecisions < MaxDecisions
    /\ Len(decisions) < DecisionCap
    /\ \E dt \in DecisionTypes :
          decisions' = Append(decisions,
              [strategy_id |-> "simple_sma_v1", instrument_id |-> 1,
               timestamp |-> emittedDecisions, decision_type |-> dt])
    /\ emittedDecisions' = emittedDecisions + 1
    /\ UNCHANGED <<ingestVars, normVars, credVars, busVars, routerVars, recorderVars, enginePc, engineDecision,
                   instruments, processed, lastPick, closed_polls, next_uuid,
                   coordinatorIntent, intents, simulation_mode, gatewayPc, gatewayOrder,
                   gatewayExec, store_failed, hadron_order_intents,
                   hadron_order_executions, executions, emitted>>

\* Coordinator::coordinate: Option<OrderIntent>, with uuid the fresh id.
coordinate_always_market(decision, uuid) ==
    IF decision.decision_type.kind \in {"Hold", "NoAction"} THEN None
    ELSE Some([id |-> uuid,
               instrument_id |-> decision.instrument_id,
               strategy_id |-> decision.strategy_id,
               side |-> decision.decision_type.kind,
               quantity |-> decision.decision_type.quantity,
               order_type |-> "Market",
               limit_price |-> decision.decision_type.limit_price,
               timestamp |-> decision.timestamp])
coordinate_nil_uuid(decision, uuid) ==
    IF decision.decision_type.kind \in {"Hold", "NoAction"} THEN None
    ELSE LET limit_price == decision.decision_type.limit_price IN
         Some([id |-> 0,
               instrument_id |-> decision.instrument_id,
               strategy_id |-> decision.strategy_id,
               side |-> decision.decision_type.kind,
               quantity |-> decision.decision_type.quantity,
               order_type |-> IF limit_price # None THEN "Limit" ELSE "Market",
               limit_price |-> limit_price,
               timestamp |-> decision.timestamp])
coordinate(decision, uuid) ==
    IF decision.decision_type.kind \in {"Hold", "NoAction"} THEN None
    ELSE LET limit_price == decision.decision_type.limit_price IN
         Some([id |-> uuid,
               instrument_id |-> decision.instrument_id,
               strategy_id |-> decision.strategy_id,
               side |-> decision.decision_type.kind,
               quantity |-> decision.decision_type.quantity,
               order_type |-> IF limit_price # None THEN "Limit" ELSE "Market",
               limit_price |-> limit_price,
               timestamp |-> decision.timestamp])

\* Coordinator::run: one decision, up to the end of the iteration or to an
\* intent send that must wait.
CoordinatorStep ==
    /\ coordinatorIntent = None
    /\ decisions # <<>>
    /\ decisions' = Tail(decisions)
    /\ LET order_intent == coordinate(Head(decisions), next_uuid) IN
       IF order_intent = None
       THEN UNCHANGED <<next_uuid, coordinatorIntent, intents>>
       ELSE /\ next_uuid' = next_uuid + 1
            /\ IF Len(intents) < IntentCap
               THEN /\ intents' = Append(intents, order_intent[1])
                    /\ UNCHANGED coordinatorIntent
               ELSE /\ coordinatorIntent' = order_intent
                    /\ UNCHANGED intents
    /\ UNCHANGED <<ingestVars, normVars, credVars, busVars, routerVars, recorderVars, enginePc, engineDecision,
                   instruments, processed, lastPick, closed_polls,
                   emittedDecisions,
                   simulation_mode, gatewayPc, gatewayOrder, gatewayExec, store_failed,
                   hadron_order_intents, hadron_order_executions, executions,
                   emitted>>

\* The intent send the Coordinator awaited completes once there is room.
CoordinatorSend ==
    /\ coordinatorIntent # None
    /\ Len(intents) < IntentCap
    /\ intents' = Append(intents, coordinatorIntent[1])
    /\ coordinatorIntent' = None
    /\ UNCHANGED <<ingestVars, normVars, credVars, busVars, routerVars, recorderVars, engineVars,
                   emittedDecisions, next_uuid, simulation_mode, gatewayPc, gatewayOrder,
                   gatewayExec, store_failed, hadron_order_intents,
                   hadron_order_executions, executions, emitted>>

\* ---------------------------------------------------------------- gateway
StoreOutcomes == {"ok", "error"}
\* Decimal::new(100, 0), the placeholder fill price, in cents.
PlaceholderPrice == 10000

\* The execution process_order builds for an intent.
SimulatedExecutionAtPlaceholder(intent, now) ==
    [order_intent_id |-> intent.id,
     instrument_id |-> intent.instrument_id,
     venue |-> "simulation",
     executed_at |-> now,
     executed_price |-> PlaceholderPrice,
     executed_quantity |-> intent.quantity,
     status |-> "Filled",
     venue_order_id |-> Some(<<"SIM-", intent.id>>)]
SimulatedExecution(intent, now) ==
    [order_intent_id |-> intent.id,
     instrument_id |-> intent.instrument_id,
     venue |-> "simulation",
     executed_at |-> now,
     executed_price |-> IF intent.limit_price # None THEN intent.limit_price[1]
                        ELSE PlaceholderPrice,
     executed_quantity |-> intent.quantity,
     status |-> "Filled",
     venue_order_id |-> Some(<<"SIM-", intent.id>>)]

\* Gateway::process_order from one await to the next.  `order` is the call
\* in progress: its intent, the statement it awaits ("entry" when the call
\* starts) and the execution once built; `answer` is the store's answer to
\* the awaited statement.  The value gives the rows of both tables
\* afterwards, the call as it waits next (None when it returned) and the
\* Result it returned (None while it waits).
process_order_execution_first(order, answer) ==
    LET rows == [intent_rows |-> hadron_order_intents,
                 execution_rows |-> hadron_order_executions]
    IN
    IF order.awaited = "entry"
    THEN rows @@ [awaiting |-> Some([intent |-> order.intent,
                                     awaited |-> "execution",
                                     execution |-> Some(SimulatedExecution(order.intent,
                                                                          Len(published)))]),
                  result |-> None]
    ELSE IF answer # "ok"
    THEN rows @@ [awaiting |-> None, result |-> Some([kind |-> "Err"])]
    ELSE IF order.awaited = "execution"
    THEN [intent_rows |-> hadron_order_intents,
          execution_rows |-> Append(hadron_order_executions, order.execution[1]),
          awaiting |-> Some([order EXCEPT !.awaited = "intent"]),
          result |-> None]
    ELSE [intent_rows |-> Append(hadron_order_intents, order.intent),
          execution_rows |-> hadron_order_executions,
          awaiting |-> None,
          result |-> Some([kind |-> "Ok", execution |-> order.execution])]
process_order_live_persists(order, answer) ==
    LET rows == [intent_rows |-> hadron_order_intents,
                 execution_rows |-> hadron_order_executions]
    IN
    IF order.awaited = "entry"
    THEN rows @@ [awaiting |-> Some([order EXCEPT !.awaited = "intent"]),
                  result |-> None]
    ELSE IF answer # "ok"
    THEN rows @@ [awaiting |-> None, result |-> Some([kind |-> "Err"])]
    ELSE [intent_rows |-> Append(hadron_order_intents, order.intent),
          execution_rows |-> hadron_order_executions,
          awaiting |-> None,
          result |-> Some([kind |-> "Ok", execution |-> None])]
process_order(order, answer) ==
    LET rows == [intent_rows |-> hadron_order_intents,
                 execution_rows |-> hadron_order_executions]
    IN
    IF order.awaited = "entry"
    THEN IF simulation_mode
         THEN rows @@ [awaiting |-> Some([order EXCEPT !.awaited = "intent"]),
                       result |-> None]
         ELSE rows @@ [awaiting |-> None,
                       result |-> Some([kind |-> "Ok", execution |-> None])]
    ELSE IF answer # "ok"
    THEN rows @@ [awaiting |-> None, result |-> Some([kind |-> "Err"])]
    ELSE IF order.awaited = "intent"
    THEN [intent_rows |-> Append(hadron_order_intents, order.intent),
          execution_rows |-> hadron_order_executions,
          awaiting |-> Some([intent |-> order.intent,
                             awaited |-> "execution",
                             execution |-> Some(SimulatedExecution(order.intent,
                                                                  Len(published)))]),
          result |-> None]
    ELSE [intent_rows |-> hadron_order_intents,
          execution_rows |-> Append(hadron_order_executions, order.execution[1]),
          awaiting |-> None,
          result |-> Some([kind |-> "Ok", execution |-> order.execution])]

\* The Recorder has returned from run, so execution_rx is dropped and a send
\* on execution_tx fails.
ExecutionReceiverKept == FALSE
ExecutionChannelClosed == recorderPc \in {"failed", "done"}

\* Gateway::run, the match on process_order's Result: where the loop is
\* afterwards.  Both arms fall through to the next recv.
GatewayAfterPropagating(result) ==
    IF result.kind = "Err" THEN "exited" ELSE "run"
GatewayAfter(result) ==
    IF result.kind = "Err" THEN "run" ELSE "run"

\* Gateway::run around process_order: while the call waits for the store
\* the task is suspended in it; once it returned, the match on its Result,
\* up to the end of the iteration or to an execution send that must wait.
GatewayContinue(id, done) ==
    /\ hadron_order_intents' = done.intent_rows
    /\ hadron_order_executions' = done.execution_rows
    /\ gatewayOrder' = done.awaiting
    /\ IF done.result = None
       THEN /\ gatewayPc' = "process"
            /\ UNCHANGED <<store_failed, gatewayExec, executions, emitted>>
       ELSE LET result == done.result[1] IN
            /\ gatewayPc' = GatewayAfter(result)
            /\ store_failed' = IF result.kind = "Err"
                               THEN store_failed \cup {id}
                               ELSE store_failed
            /\ IF result.kind = "Err" \/ result.execution = None
               THEN UNCHANGED <<gatewayExec, executions, emitted>>
               ELSE IF ExecutionChannelClosed
               THEN UNCHANGED <<gatewayExec, executions, emitted>>
               ELSE IF Len(executions) < ExecutionCap
               THEN /\ executions' = Append(executions, result.execution[1])
                    /\ emitted' = Append(emitted, result.execution[1])
                    /\ UNCHANGED gatewayExec
               ELSE /\ gatewayExec' = result.execution
                    /\ UNCHANGED <<executions, emitted>>

\* Gateway::run: rx.recv() yields an intent and process_order runs up to
\* its first await (in live mode, to its return).
GatewayStep ==
    /\ gatewayPc = "run"
    /\ gatewayExec = None
    /\ intents # <<>>
    /\ intents' = Tail(intents)
    /\ GatewayContinue(Head(intents).id,
                       process_order([intent |-> Head(intents), awaited |-> "entry",
                                      execution |-> None], "ok"))
    /\ UNCHANGED <<ingestVars, normVars, credVars, busVars, routerVars, recorderVars, engineVars,
                   emittedDecisions, next_uuid, coordinatorIntent,
                   simulation_mode>>

\* The store answers the INSERT process_order awaits.
GatewayStore ==
    /\ gatewayPc = "process"
    /\ \E answer \in StoreOutcomes :
          GatewayContinue(gatewayOrder[1].intent.id,
                          process_order(gatewayOrder[1], answer))
    /\ UNCHANGED <<ingestVars, normVars, credVars, busVars, routerVars, recorderVars, engineVars,
                   emittedDecisions, next_uuid, coordinatorIntent, intents,
                   simulation_mode>>

\* The execution send the Gateway awaited completes once there is room, or
\* fails once the Recorder is gone.
GatewaySend ==
    /\ gatewayPc = "run"
    /\ gatewayExec # None
    /\ IF ExecutionChannelClosed
       THEN UNCHANGED <<executions, emitted>>
       ELSE /\ Len(executions) < ExecutionCap
            /\ executions' = Append(executions, gatewayExec[1])
            /\ emitted' = Append(emitted, gatewayExec[1])
    /\ gatewayExec' = None
    /\ UNCHANGED <<ingestVars, normVars, credVars, busVars, routerVars, recorderVars, engineVars,
                   emittedDecisions, next_uuid, coordinatorIntent, intents,
                   simulation_mode, gatewayPc, gatewayOrder, store_failed,
                   hadron_order_intents, hadron_order_executions>>

\* -------------------------------------------------------------- ingestors
\* tokio::time::Duration::from_secs(5), the pause before every reconnect.
ReconnectBackoffSecs == 5

Equities == "polygon_default"
PredictionMarket == "kalshi_1"

\* IngestManager::get_tickers_for_connection
AllTickers ==
    <<"AAPL", "MSFT", "GOOGL", "AMZN", "TSLA", "META", "NVDA", "NFLX", "DIS", "JPM">>

\* A &str is the sequence of its characters.
\* str::strip_prefix: the rest of s after the prefix, when s starts with it.
strip_prefix(s, prefix) ==
    IF Len(s) >= Len(prefix) /\ SubSeq(s, 1, Len(prefix)) = prefix
    THEN Some(SubSeq(s, Len(prefix) + 1, Len(s)))
    ELSE None

\* str::parse::<usize>() on a 64-bit target, None for Err: one optional
\* leading '+', then one or more of the digits 0..9 and nothing else
\* (no '-', no blank); leading zeros count for nothing; a value above
\* 2^64 - 1 = 18446744073709551615 is an Err.
parse_usize(s) ==
    LET digit == <<"0", "1", "2", "3", "4", "5", "6", "7", "8", "9">>
        usize_max == <<1, 8, 4, 4, 6, 7, 4, 4, 0, 7, 3, 7, 0, 9, 5, 5, 1, 6, 1, 5>>
        body == IF s # <<>> /\ s[1] = "+" THEN Tail(s) ELSE s
        IsDigit(c) == \E d \in 1..10 : digit[d] = c
        ValueOf(c) == (CHOOSE d \in 1..10 : digit[d] = c) - 1
        zeros == Cardinality({k \in 1..Len(body) : \A j \in 1..k : body[j] = "0"})
        significant == SubSeq(body, zeros + 1, Len(body))
        too_large ==
            \/ Len(significant) > Len(usize_max)
            \/ /\ Len(significant) = Len(usize_max)
               /\ \E k \in 1..Len(usize_max) :
                     /\ ValueOf(significant[k]) > usize_max[k]
                     /\ \A j \in 1..(k - 1) : ValueOf(significant[j]) = usize_max[j]
        value[k \in 0..Len(significant)] ==
            IF k = 0 THEN 0 ELSE 10 * value[k - 1] + ValueOf(significant[k])
    IN  IF body = <<>> \/ \E k \in 1..Len(body) : ~IsDigit(body[k]) THEN None
        ELSE IF too_large THEN None
        ELSE Some(value[Len(significant)])

\* connection_id.strip_prefix("hadron_").and_then(|s| s.parse().ok())
\*     .unwrap_or(1)
ConnNum(connection_id) ==
    LET rest == strip_prefix(connection_id, <<"h", "a", "d", "r", "o", "n", "_">>) IN
    IF rest = None THEN 1
    ELSE IF parse_usize(rest[1]) = None THEN 1
    ELSE parse_usize(rest[1])[1]

\* The tickers at the 0-based positions i with i % 4 = (conn_num - 1) % 4,
\* the subtraction wrapping at 2^64: (conn_num - 1) mod 2^64 and
\* conn_num + 3 have the same remainder by 4.
RECURSIVE TickersFrom(_, _)
TickersFrom(k, conn_num) ==
    IF k > Len(AllTickers) THEN <<>>
    ELSE IF (k - 1) % 4 = (conn_num + 3) % 4
         THEN <<AllTickers[k]>> \o TickersFrom(k + 1, conn_num)
         ELSE TickersFrom(k + 1, conn_num)

\* `conn_num - 1` on a conn_num of 0: a build with overflow checks (debug)
\* panics there, "panic" below; a build without them (release) wraps.
get_tickers_for_connection(connection_id, overflow_checks) ==
    IF \/ connection_id = <<"d", "e", "f", "a", "u", "l", "t">>
       \/ connection_id = <<"h", "a", "d", "r", "o", "n", "_", "1">>
    THEN AllTickers
    ELSE IF ConnNum(connection_id) = 0 /\ overflow_checks THEN "panic"
    ELSE TickersFrom(1, ConnNum(connection_id))

\* The tickers of the equities ingestor main spawns, whose connection id
\* is "polygon_default"; they are the same in either build.  The
\* prediction-market ingestor does not ask for tickers.
EquitiesTickers ==
    get_tickers_for_connection(
        <<"p", "o", "l", "y", "g", "o", "n", "_", "d", "e", "f", "a", "u", "l", "t">>, TRUE)

\* The messages an ingestor writes.  params of the equities subscription
\* lists the tickers t of its topics "T.t".
AuthRequest == [action |-> "auth", params |-> <<"api_key">>]
Pong == [action |-> "pong", params |-> <<>>]
EquitiesSubscription(tickers) == [action |-> "subscribe", params |-> tickers]
PredictionSubscription == [action |-> "subscribe", params |-> <<"ticker">>]

\* The subscription ingestor i writes on a session.
Subscription(i) ==
    IF i = PredictionMarket THEN PredictionSubscription
    ELSE EquitiesSubscription(EquitiesTickers)

\* write.send(msg) is called on the session: the write is recorded as
\* issued, and when it returns its outcome replaces that.
Written(w, msg) == Append(w, [msg |-> msg, result |-> "issued"])
Returned(w, ok) == [w EXCEPT ![Len(w)].result = IF ok THEN "Ok" ELSE "Err"]

\* Where an ingestor stands while connect_and_stream holds a session: in the
\* first write of the prediction-market subscription, at read.next(), in
\* the send of a raw event, or in the write of a pong.
InSession == {"subscribe", "stream", "send", "pong"}

\* The locals of a fresh call of connect_and_stream.
NewSession ==
    [authenticated |-> FALSE, subscribed |-> FALSE, heard |-> {},
     wire |-> <<>>, forwarded |-> 0, trades |-> 0]

\* The session of ingestor i as a record, and its assignment.
SessionOf(i) ==
    [authenticated |-> authenticated[i], subscribed |-> subscribed[i],
     heard |-> heard[i], wire |-> wire[i], forwarded |-> forwarded[i],
     trades |-> trades_read[i]]

SetSession(i, s) ==
    /\ authenticated' = [authenticated EXCEPT ![i] = s.authenticated]
    /\ subscribed' = [subscribed EXCEPT ![i] = s.subscribed]
    /\ heard' = [heard EXCEPT ![i] = s.heard]
    /\ wire' = [wire EXCEPT ![i] = s.wire]
    /\ forwarded' = [forwarded EXCEPT ![i] = s.forwarded]
    /\ trades_read' = [trades_read EXCEPT ![i] = s.trades]

\* The payloads of an equities text message: status events, trades, and
\* events of another discriminator.
EquitiesPayloads ==
    {"connected", "auth_success", "auth_failed", "error_max_connections",
     "error", "max_connections", "T", "Q"}

\* IngestManager::connect_and_stream, the body of `for payload in messages`
\* for one payload, up to its await if it has one: the write of the auth
\* request or the subscription, or the send of the raw event.  awaits says the body stopped at the
\* await, brk that it ended in `break`, which leaves the for loop.
HandlePayloadEager(s, payload, tickers) ==
    IF payload = "connected" /\ ~s.authenticated
    THEN [s |-> [s EXCEPT !.heard = @ \cup {payload},
                          !.wire = Written(Written(@, EquitiesSubscription(tickers)),
                                           AuthRequest)],
          brk |-> FALSE, awaits |-> TRUE]
    ELSE [s |-> s, brk |-> FALSE, awaits |-> FALSE]
HandlePayloadUnguarded(s, payload, tickers) ==
    IF payload = "T"
    THEN [s |-> [s EXCEPT !.heard = @ \cup {payload}], brk |-> FALSE, awaits |-> TRUE]
    ELSE [s |-> s, brk |-> FALSE, awaits |-> FALSE]
HandlePayload(s, payload, tickers) ==
    CASE payload = "connected" ->
           IF ~s.authenticated
           THEN [s |-> [s EXCEPT !.heard = @ \cup {payload},
                                 !.wire = Written(@, AuthRequest)],
                 brk |-> FALSE, awaits |-> TRUE]
           ELSE [s |-> [s EXCEPT !.heard = @ \cup {payload}],
                 brk |-> FALSE, awaits |-> FALSE]
      [] payload = "auth_success" ->
           IF tickers # <<>>
           THEN [s |-> [s EXCEPT !.heard = @ \cup {payload},
                                 !.authenticated = TRUE,
                                 !.wire = Written(@, EquitiesSubscription(tickers))],
                 brk |-> FALSE, awaits |-> TRUE]
           ELSE [s |-> [s EXCEPT !.heard = @ \cup {payload},
                                 !.authenticated = TRUE],
                 brk |-> FALSE, awaits |-> FALSE]
      [] payload = "auth_failed" -> [s |-> s, brk |-> TRUE, awaits |-> FALSE]
      [] payload \in {"error_max_connections", "max_connections"} ->
           [s |-> [s EXCEPT !.heard = @ \cup {"max_connections"}],
            brk |-> TRUE, awaits |-> FALSE]
      [] payload = "T" ->
           [s |-> [s EXCEPT !.heard = @ \cup {payload}],
            brk |-> FALSE, awaits |-> s.authenticated]
      [] OTHER -> [s |-> s, brk |-> FALSE, awaits |-> FALSE]

\* The same body from its await on: the write returned (ok is its
\* outcome), a failed write breaks, the subscription written sets
\* subscribed, and the raw event is on the channel.
ResumePayload(s, payload, ok) ==
    CASE payload = "connected" ->
           [s |-> [s EXCEPT !.wire = Returned(@, ok)], brk |-> ~ok]
      [] payload = "auth_success" ->
           IF ok
           THEN [s |-> [s EXCEPT !.wire = Returned(@, ok), !.subscribed = TRUE],
                 brk |-> FALSE]
           ELSE [s |-> [s EXCEPT !.wire = Returned(@, ok)], brk |-> TRUE]
      [] OTHER -> [s |-> [s EXCEPT !.forwarded = @ + 1], brk |-> FALSE]

\* The trade payloads of a text message that arrive on an authenticated
\* session: auth is whether auth_success came before the message.
RECURSIVE TradesDue(_, _)
TradesDue(auth, payloads) ==
    IF payloads = <<>> THEN 0
    ELSE (IF Head(payloads) = "T" /\ auth THEN 1 ELSE 0)
         + TradesDue(auth \/ Head(payloads) = "auth_success", Tail(payloads))

\* The `for payload in messages` loop from the given payload up to its next
\* await or its end: the locals then, and the payloads left, the first
\* being the one whose await is outstanding.
RECURSIVE HandleFrame(_, _, _)
HandleFrame(s, payloads, tickers) ==
    IF payloads = <<>> THEN [s |-> s, payloads |-> <<>>]
    ELSE LET r == HandlePayload(s, Head(payloads), tickers) IN
         IF r.awaits THEN [s |-> r.s, payloads |-> payloads]
         ELSE IF r.brk THEN [s |-> r.s, payloads |-> <<>>]
         ELSE HandleFrame(r.s, Tail(payloads), tickers)

\* The text messages read: a text that does not parse or an empty array
\* (no payload), a single object, and arrays of two payloads.
EquitiesFrames ==
    {<<>>} \cup {<<x>> : x \in EquitiesPayloads}
           \cup {<<"connected", "auth_success">>, <<"auth_success", "T">>,
                 <<"T", "T">>, <<"max_connections", "T">>}

\* The pause start() makes after connect_and_stream returned result.
ReconnectDelayOnErrorOnly(result) ==
    IF result = "Err" THEN ReconnectBackoffSecs ELSE 0
ReconnectDelay(result) ==
    IF result = "Err" THEN ReconnectBackoffSecs ELSE ReconnectBackoffSecs

\* connect_and_stream of ingestor i returned result, its locals are gone,
\* and start() sleeps.
SessionEnds(i, result) ==
    /\ ingestPc' = [ingestPc EXCEPT ![i] = "sleep"]
    /\ sleepLeft' = [sleepLeft EXCEPT ![i] = ReconnectDelay(result)]
    /\ frames' = [frames EXCEPT ![i] = 0]
    /\ SetSession(i, NewSession)

\* IngestManager::start calls connect_and_stream: connect_async fails, or
\* the session starts with fresh locals.
EquitiesConnect ==
    /\ ingestPc[Equities] = "connect"
    /\ sessions[Equities] < MaxSessions
    /\ sessions' = [sessions EXCEPT ![Equities] = @ + 1]
    /\ \E connected \in BOOLEAN :
          IF connected
          THEN /\ ingestPc' = [ingestPc EXCEPT ![Equities] = "stream"]
               /\ SetSession(Equities, NewSession)
               /\ UNCHANGED <<sleepLeft, frames>>
          ELSE SessionEnds(Equities, "Err")
    /\ UNCHANGED <<pending, shutdown_requested, busVars, routerVars, engineVars,
                   orderVars, recorderVars, normVars, credVars>>

\* IngestManager::connect_and_stream reads one text message and handles
\* its payloads up to the first await.
EquitiesText ==
    /\ ingestPc[Equities] = "stream"
    /\ pending = <<>>
    /\ frames[Equities] < MaxFrames
    /\ frames' = [frames EXCEPT ![Equities] = @ + 1]
    /\ \E payloads \in EquitiesFrames :
          LET read == [SessionOf(Equities) EXCEPT
                          !.trades = @ + TradesDue(authenticated[Equities], payloads)]
              f == HandleFrame(read, payloads, EquitiesTickers)
          IN  /\ SetSession(Equities, f.s)
              /\ pending' = f.payloads
    /\ UNCHANGED <<ingestPc, sleepLeft, sessions, shutdown_requested, busVars,
                   routerVars, engineVars, orderVars, recorderVars, normVars, credVars>>

\* The write or the send the equities session awaited returned (ok is the
\* outcome of a write): the rest of that payload's body, then the
\* following payloads up to the next await.
EquitiesResume ==
    /\ pending # <<>>
    /\ \E ok \in BOOLEAN :
          LET r == ResumePayload(SessionOf(Equities), Head(pending), ok)
              f == IF r.brk THEN [s |-> r.s, payloads |-> <<>>]
                   ELSE HandleFrame(r.s, Tail(pending), EquitiesTickers)
          IN  /\ SetSession(Equities, f.s)
              /\ pending' = f.payloads
    /\ UNCHANGED <<ingestPc, sleepLeft, sessions, frames, shutdown_requested, busVars,
                   routerVars, engineVars, orderVars, recorderVars, normVars, credVars>>

\* KalshiIngestManager::start calls connect_and_stream: building the
\* headers or connecting fails, or the session is open and the
\* subscription is written first thing.
PredictionConnectOutcomes == {"headers_failed", "connect_failed", "connected"}

PredictionConnect ==
    /\ ingestPc[PredictionMarket] = "connect"
    /\ sessions[PredictionMarket] < MaxSessions
    /\ sessions' = [sessions EXCEPT ![PredictionMarket] = @ + 1]
    /\ \E outcome \in PredictionConnectOutcomes :
          IF outcome = "connected"
          THEN /\ SetSession(PredictionMarket,
                      [NewSession EXCEPT
                          !.wire = Written(@, PredictionSubscription)])
               /\ ingestPc' = [ingestPc EXCEPT ![PredictionMarket] = "subscribe"]
               /\ UNCHANGED <<sleepLeft, frames>>
          ELSE SessionEnds(PredictionMarket, "Err")
    /\ UNCHANGED <<pending, shutdown_requested, busVars, routerVars, engineVars,
                   orderVars, recorderVars, normVars, credVars>>

\* The write of the subscription returned: Ok and the session starts to
\* read, or an error and connect_and_stream returns it.
PredictionSubscribed ==
    /\ ingestPc[PredictionMarket] = "subscribe"
    /\ \E ok \in BOOLEAN :
          IF ok
          THEN /\ wire' = [wire EXCEPT ![PredictionMarket] = Returned(@, ok)]
               /\ ingestPc' = [ingestPc EXCEPT ![PredictionMarket] = "stream"]
               /\ UNCHANGED <<sleepLeft, frames, authenticated, subscribed, heard,
                              forwarded, trades_read>>
          ELSE SessionEnds(PredictionMarket, "Err")
    /\ UNCHANGED <<pending, sessions, shutdown_requested, busVars, routerVars,
                   engineVars, orderVars, recorderVars, normVars, credVars>>

\* The types of a prediction-market text message; "" is a text that does
\* not parse or has no type.
PredictionTypes ==
    {"subscribed", "ticker", "orderbook_delta", "orderbook_snapshot", "trades",
     "error", "unknown", ""}

\* KalshiIngestManager::connect_and_stream reads one text message; for a
\* market data type it builds the raw event and calls tx.send.
PredictionText ==
    /\ ingestPc[PredictionMarket] = "stream"
    /\ frames[PredictionMarket] < MaxFrames
    /\ frames' = [frames EXCEPT ![PredictionMarket] = @ + 1]
    /\ \E msg_type \in PredictionTypes :
          IF msg_type \in {"ticker", "orderbook_delta", "orderbook_snapshot", "trades"}
          THEN ingestPc' = [ingestPc EXCEPT ![PredictionMarket] = "send"]
          ELSE UNCHANGED ingestPc
    /\ UNCHANGED <<pending, sleepLeft, sessions, authenticated, subscribed,
                   heard, wire, forwarded, trades_read, shutdown_requested, busVars,
                   routerVars, engineVars, orderVars, recorderVars, normVars, credVars>>

\* tx.send(raw_event) returned: the raw event is on the channel and the
\* session reads again.
PredictionSent ==
    /\ ingestPc[PredictionMarket] = "send"
    /\ forwarded' = [forwarded EXCEPT ![PredictionMarket] = @ + 1]
    /\ ingestPc' = [ingestPc EXCEPT ![PredictionMarket] = "stream"]
    /\ UNCHANGED <<pending, sleepLeft, sessions, frames, authenticated, subscribed,
                   heard, wire, trades_read, shutdown_requested, busVars,
                   routerVars, engineVars, orderVars, recorderVars, normVars, credVars>>

\* What read.next() yields besides a text message: a Close, Ping, Pong or
\* Binary frame, a transport error, or the end of the stream.
ControlMessages == {"Close", "Ping", "Pong", "Binary", "Error", "End"}

\* Either connect_and_stream, the arms of `match msg` other than Text: Close,
\* an error and the end of the stream leave the while loop and the call
\* returns Ok(()); a Ping calls the write of the pong.
IngestControl ==
    \E i \in Ingestors, m \in ControlMessages :
       /\ ingestPc[i] = "stream"
       /\ i = Equities => pending = <<>>
       /\ CASE m \in {"Close", "Error", "End"} -> SessionEnds(i, "Ok")
            [] m = "Ping" ->
                 /\ frames[i] < MaxFrames
                 /\ frames' = [frames EXCEPT ![i] = @ + 1]
                 /\ wire' = [wire EXCEPT ![i] = Written(@, Pong)]
                 /\ ingestPc' = [ingestPc EXCEPT ![i] = "pong"]
                 /\ UNCHANGED <<sleepLeft, authenticated, subscribed,
                                heard, forwarded, trades_read>>
            [] OTHER ->
                 /\ frames[i] < MaxFrames
                 /\ frames' = [frames EXCEPT ![i] = @ + 1]
                 /\ UNCHANGED <<ingestPc, sleepLeft, authenticated, subscribed,
                                heard, wire, forwarded, trades_read>>
       /\ UNCHANGED <<pending, sessions, shutdown_requested, busVars, routerVars,
                      engineVars, orderVars, recorderVars, normVars, credVars>>

\* The write of the pong returned: Ok and the session reads again, or an
\* error, which leaves the while loop, and the call returns Ok(()).
IngestPong ==
    \E i \in Ingestors, ok \in BOOLEAN :
       /\ ingestPc[i] = "pong"
       /\ IF ok
          THEN /\ wire' = [wire EXCEPT ![i] = Returned(@, ok)]
               /\ ingestPc' = [ingestPc EXCEPT ![i] = "stream"]
               /\ UNCHANGED <<sleepLeft, frames, authenticated, subscribed, heard,
                              forwarded, trades_read>>
          ELSE SessionEnds(i, "Ok")
       /\ UNCHANGED <<pending, sessions, shutdown_requested, busVars, routerVars,
                      engineVars, orderVars, recorderVars, normVars, credVars>>

\* Time passes up to the earliest moment a sleeping ingestor is due.
Elapse ==
    /\ \E i \in Ingestors :
          /\ sleepLeft[i] > 0
          /\ \A j \in Ingestors : sleepLeft[j] > 0 => sleepLeft[i] <= sleepLeft[j]
          /\ sleepLeft' = [j \in Ingestors |-> Max(0, sleepLeft[j] - sleepLeft[i])]
    /\ UNCHANGED <<pending, ingestPc, sessions, frames, authenticated, subscribed, heard,
                   wire, forwarded, trades_read, shutdown_requested, busVars,
                   routerVars,
                   engineVars, orderVars, recorderVars, normVars, credVars>>

\* The sleep of start() is over: the loop calls connect_and_stream again.
IngestWake ==
    \E i \in Ingestors :
       /\ ingestPc[i] = "sleep"
       /\ sleepLeft[i] = 0
       /\ ingestPc' = [ingestPc EXCEPT ![i] = "connect"]
       /\ UNCHANGED <<pending, sleepLeft, sessions, frames, authenticated, subscribed,
                      heard, wire, forwarded, trades_read, shutdown_requested,
                      busVars, routerVars, engineVars, orderVars, recorderVars, normVars, credVars>>

\* The root cancellation signal is raised.  Nothing in main or in the
\* ingestors creates, passes or reads such a signal.
RaiseCancellation ==
    /\ ~shutdown_requested
    /\ shutdown_requested' = TRUE
    /\ UNCHANGED <<pending, ingestPc, sleepLeft, sessions, frames, authenticated,
                   subscribed, heard, wire, forwarded, trades_read, busVars,
                   routerVars,
                   engineVars, orderVars, recorderVars, normVars, credVars>>

\* ------------------------------------------------------------- normalizer
\* The tickers of the model: the store holds rows for the upper-case one;
\* the lower-case one is found by the case-insensitive query only.
StoredTickers == {"AAPL"}
LookupTickers == {"AAPL", "aapl"}

\* SQL UPPER on the tickers of the model.
Upper(ticker) == IF ticker = "aapl" THEN "AAPL" ELSE ticker

MinOf(S) == CHOOSE x \in S : \A y \in S : x <= y

\* SELECT id FROM instruments WHERE ticker = $1 AND status = 'active'
\* ORDER BY id LIMIT 1, and the same with UPPER(ticker) = UPPER($1).
ExactRow(table, ticker) ==
    IF ticker \in DOMAIN table /\ table[ticker] # {}
    THEN Some(MinOf(table[ticker]))
    ELSE None

CaseInsensitiveRow(table, ticker) ==
    LET ids == UNION {table[u] : u \in {v \in DOMAIN table : Upper(v) = Upper(ticker)}}
    IN  IF ids # {} THEN Some(MinOf(ids)) ELSE None

\* What the store answers to a query of lookup_instrument_id: an error, or
\* the optional row of the query over the table as it is at that moment.
StoreAnswer(table, ticker, query, db_ok) ==
    IF ~db_ok THEN [kind |-> "Err", row |-> None]
    ELSE [kind |-> "Ok",
          row |-> IF query = "exact" THEN ExactRow(table, ticker)
                  ELSE CaseInsensitiveRow(table, ticker)]

\* Normalizer::lookup_instrument_id, given the answers the store has given
\* to its queries so far: the Result (None while it waits for the store),
\* the query it waits for, and the cache afterwards.
lookup_instrument_id_uncached(cache, ticker, answers) ==
    LET waits(query) == [result |-> None, awaits |-> query, cache |-> cache]
        err == [result |-> Some([kind |-> "Err", id |-> None]), awaits |-> "",
                cache |-> cache]
        ok(row) == [result |-> Some([kind |-> "Ok", id |-> row]), awaits |-> "",
                    cache |-> [cache EXCEPT ![ticker] = row]]
    IN
    IF answers = <<>> THEN waits("exact")
    ELSE IF answers[1].kind = "Err" THEN err
    ELSE IF answers[1].row # None THEN ok(answers[1].row)
    ELSE IF Len(answers) = 1 THEN waits("upper")
    ELSE IF answers[2].kind = "Err" \/ answers[2].row = None THEN err
    ELSE ok(answers[2].row)
lookup_instrument_id(cache, ticker, answers) ==
    LET waits(query) == [result |-> None, awaits |-> query, cache |-> cache]
        err == [result |-> Some([kind |-> "Err", id |-> None]), awaits |-> "",
                cache |-> cache]
        ok(row) == [result |-> Some([kind |-> "Ok", id |-> row]), awaits |-> "",
                    cache |-> [cache EXCEPT ![ticker] = row]]
    IN
    IF cache[ticker] # None
    THEN [result |-> Some([kind |-> "Ok", id |-> cache[ticker]]), awaits |-> "",
          cache |-> cache]
    ELSE IF answers = <<>> THEN waits("exact")
    ELSE IF answers[1].kind = "Err" THEN err
    ELSE IF answers[1].row # None THEN ok(answers[1].row)
    ELSE IF Len(answers) = 1 THEN waits("upper")
    ELSE IF answers[2].kind = "Err" \/ answers[2].row = None THEN err
    ELSE ok(answers[2].row)

\* The RawEvent the equities ingestor builds for a "T" payload with the
\* given sym, p and t fields (each an Option), and the one the
\* prediction-market ingestor builds for a ticker message.
PolygonTrade(sym, p, t) ==
    [source |-> "polygon", venue |-> "polygon_ws", type |-> "T", sym |-> sym,
     p |-> p, t |-> t, yes_bid |-> None, yes_ask |-> None, bid |-> None,
     ask |-> None]

KalshiTicker(market_ticker, yes_bid, yes_ask) ==
    [source |-> "kalshi", venue |-> "kalshi_ws", type |-> "ticker",
     sym |-> Some(market_ticker), p |-> None, t |-> None,
     yes_bid |-> Some(yes_bid), yes_ask |-> Some(yes_ask), bid |-> None,
     ask |-> None]

\* The raw events received: well-formed trades, a trade with a negative
\* price, trades that lack sym, p or t, and a prediction-market ticker.
\* A negative trade price (in cents).
NegativePrice == 0 - FlatPrice

RawEvents ==
    {PolygonTrade(Some("AAPL"), Some(FlatPrice), Some(1)),
     PolygonTrade(Some("aapl"), Some(FlatPrice), Some(1)),
     PolygonTrade(Some("AAPL"), Some(NegativePrice), Some(1)),
     PolygonTrade(None, Some(FlatPrice), Some(1)),
     PolygonTrade(Some("AAPL"), None, Some(1)),
     PolygonTrade(Some("AAPL"), Some(FlatPrice), None),
     KalshiTicker("X", YesBid, YesAsk)}

NormalizeOk(tick, cache, lookup) ==
    [result |-> Some([kind |-> "Ok", tick |-> tick]), awaits |-> "",
     cache |-> cache, lookup |-> lookup]

NormalizeErr(cache, lookup) ==
    [result |-> Some([kind |-> "Err", tick |-> None]), awaits |-> "",
     cache |-> cache, lookup |-> lookup]

\* Normalizer::normalize_polygon_trade, given the store's answers so far:
\* the Result<Option<HadronTick>> (None while the lookup waits for the
\* store), the query waited for, the cache afterwards and, if the lookup
\* was made, its result.
normalize_polygon_trade(raw_event, cache, answers) ==
    IF raw_event.sym = None THEN NormalizeErr(cache, None)
    ELSE LET l == lookup_instrument_id(cache, raw_event.sym[1], answers) IN
         IF l.result = None
         THEN [result |-> None, awaits |-> l.awaits, cache |-> cache, lookup |-> None]
         ELSE IF l.result[1].kind = "Err" THEN NormalizeOk(None, l.cache, l.result)
         ELSE IF raw_event.p = None THEN NormalizeErr(l.cache, l.result)
         ELSE IF raw_event.t = None THEN NormalizeErr(l.cache, l.result)
         ELSE NormalizeOk(Some([instrument_id |-> l.result[1].id[1],
                                price |-> raw_event.p[1],
                                tick_type |-> "Trade"]),
                          l.cache, l.result)

\* Normalizer::normalize: the dispatch on (source, venue).
normalize(raw_event, cache, answers) ==
    IF raw_event.source = "polygon" /\ raw_event.venue = "polygon_ws"
    THEN normalize_polygon_trade(raw_event, cache, answers)
    ELSE NormalizeOk(None, cache, None)

\* Where Normalizer::run stands after a result of normalize: it logs an
\* Err and goes on.
NormalizerAfterPropagating(result) ==
    IF result.kind = "Err" THEN "done" ELSE "run"
NormalizerAfter(result) ==
    IF result.kind = "Err" THEN "run" ELSE "run"

\* Normalizer::run around normalize: while the lookup waits for the store
\* the task is suspended in it, holding the event and the answers so far;
\* once normalize returned, the match on its Result, and the tick, if there
\* is one, is sent on the bus.
NormalizerContinue(raw_event, answers) ==
    LET n == normalize(raw_event, symbol_cache, answers) IN
    IF n.result = None
    THEN /\ normalizing' = Some([raw_event |-> raw_event, answers |-> answers,
                                 awaits |-> n.awaits])
         /\ normPc' = "lookup"
         /\ UNCHANGED <<symbol_cache, resolved, last_normalize, published, bus>>
    ELSE /\ normalizing' = None
         /\ symbol_cache' = n.cache
         /\ resolved' = IF n.lookup # None /\ n.lookup[1].kind = "Ok"
                        THEN [resolved EXCEPT ![raw_event.sym[1]] =
                                                 @ \cup {n.lookup[1].id[1]}]
                        ELSE resolved
         /\ last_normalize' = Some([raw |-> raw_event, result |-> n.result[1],
                                    lookup |-> n.lookup])
         /\ IF n.result[1].tick # None
            THEN BusSend(Tick(Len(published), n.result[1].tick[1].instrument_id,
                              n.result[1].tick[1].tick_type, n.result[1].tick[1].price))
            ELSE UNCHANGED <<published, bus>>
         /\ normPc' = NormalizerAfter(n.result[1])

\* Normalizer::run: rx.recv() yields a raw event and normalize runs up to
\* its first wait for the store, or to its return when it needs none.
NormalizerRecv ==
    /\ normPc = "run"
    /\ ~raw_closed
    /\ raw_handled < MaxRaw
    /\ raw_handled' = raw_handled + 1
    /\ \E raw_event \in RawEvents : NormalizerContinue(raw_event, <<>>)
    /\ UNCHANGED <<cursor, received, lagged, bus_closed, raw_closed,
                   instruments_table, routerVars, engineVars, orderVars,
                   recorderVars, ingestVars, credVars>>

\* The store answers the query lookup_instrument_id awaits.
NormalizerStore ==
    /\ normPc = "lookup"
    /\ \E db_ok \in BOOLEAN :
          LET call == normalizing[1] IN
          NormalizerContinue(call.raw_event,
              Append(call.answers,
                     StoreAnswer(instruments_table, call.raw_event.sym[1],
                                 call.awaits, db_ok)))
    /\ UNCHANGED <<cursor, received, lagged, bus_closed, raw_closed, raw_handled,
                   instruments_table, routerVars, engineVars, orderVars,
                   recorderVars, ingestVars, credVars>>

\* Another client of the store inserts, activates or deactivates rows of
\* the instruments table.
StoreChange ==
    /\ \E ticker \in StoredTickers, ids \in SUBSET Instruments :
          /\ ids # instruments_table[ticker]
          /\ instruments_table' = [instruments_table EXCEPT ![ticker] = ids]
    /\ UNCHANGED <<normPc, normalizing, raw_closed, raw_handled, symbol_cache,
                   resolved, last_normalize, busVars, routerVars, engineVars, orderVars,
                   recorderVars, ingestVars, credVars>>

\* Every ingestor is gone and with it the last Sender of the raw channel.
CloseRaw ==
    /\ ~raw_closed
    /\ raw_closed' = TRUE
    /\ UNCHANGED <<normPc, normalizing, raw_handled, symbol_cache, instruments_table,
                   resolved, last_normalize, busVars, routerVars, engineVars,
                   orderVars, recorderVars, ingestVars, credVars>>

\* Normalizer::run: self.rx.recv() returns None and run returns Ok(()).
NormalizerClosed ==
    /\ normPc = "run"
    /\ raw_closed
    /\ normPc' = "done"
    /\ UNCHANGED <<normalizing, raw_closed, raw_handled, symbol_cache, instruments_table,
                   resolved, last_normalize, busVars, routerVars, engineVars,
                   orderVars, recorderVars, ingestVars, credVars>>

\* ------------------------------------------------------------ credentials
\* An environment variable is <<name, slot>>; slot 0 is the variable
\* without a number (POLYGON_API_KEY, KALSHI_API_KEY, KALSHI_PRIVATE_KEY_PATH).
EnvVars ==
    {<<"POLYGON_API_KEY", 0>>, <<"KALSHI_API_KEY", 0>>,
     <<"KALSHI_PRIVATE_KEY_PATH", 0>>}
    \cup ({"HADRON_API_KEY", "KALSHI_API_KEY", "KALSHI_PRIVATE_KEY_PATH"}
          \X (1..KeySlots))

\* A variable is unset, set to the empty string, or set to a value.
EnvValues == {None, Some(""), Some("secret")}

\* IngestManager::get_api_keys, the loop over the slots from..KeySlots.
RECURSIVE HadronSlots(_, _)
HadronSlots(e, from) ==
    IF from > KeySlots THEN <<>>
    ELSE LET key == e[<<"HADRON_API_KEY", from>>] IN
         (IF key # None /\ key[1] # "" THEN key ELSE <<>>)
         \o HadronSlots(e, from + 1)

\* IngestManager::get_api_keys: the primary key, then the slots.
get_api_keys(e) ==
    e[<<"POLYGON_API_KEY", 0>>] \o HadronSlots(e, 1)

\* KalshiIngestManager::get_api_keys: the pair of one slot, if both
\* variables are set and neither is empty.
KalshiPair(e, slot) ==
    LET api_key == e[<<"KALSHI_API_KEY", slot>>]
        key_path == e[<<"KALSHI_PRIVATE_KEY_PATH", slot>>] IN
    IF api_key # None /\ key_path # None /\ api_key[1] # "" /\ key_path[1] # ""
    THEN <<<<api_key[1], key_path[1]>>>>
    ELSE <<>>

RECURSIVE KalshiSlots(_, _)
KalshiSlots(e, from) ==
    IF from > KeySlots THEN <<>>
    ELSE KalshiPair(e, from) \o KalshiSlots(e, from + 1)

\* KalshiIngestManager::get_api_keys: the slots, then the single pair.
kalshi_get_api_keys(e) == KalshiSlots(e, 1) \o KalshiPair(e, 0)

\* The operator sets a variable before the process reads its environment.
SetEnv ==
    /\ api_keys = None
    /\ kalshi_keys = None
    /\ \E v \in EnvVars, value \in EnvValues :
          /\ env[v] # value
          /\ env' = [env EXCEPT ![v] = value]
    /\ UNCHANGED <<api_keys, kalshi_keys, busVars, routerVars, engineVars,
                   orderVars, recorderVars, ingestVars, normVars>>

\* main calls IngestManager::get_api_keys.
DiscoverEquitiesKeys ==
    /\ api_keys = None
    /\ api_keys' = Some(get_api_keys(env))
    /\ UNCHANGED <<env, kalshi_keys, busVars, routerVars, engineVars,
                   orderVars, recorderVars, ingestVars, normVars>>

\* main calls KalshiIngestManager::get_api_keys.
DiscoverPredictionKeys ==
    /\ api_keys # None
    /\ kalshi_keys = None
    /\ kalshi_keys' = Some(kalshi_get_api_keys(env))
    /\ UNCHANGED <<env, api_keys, busVars, routerVars, engineVars,
                   orderVars, recorderVars, ingestVars, normVars>>

\* ------------------------------------------------------------------- init
\* After main has built the channels and the stages: HADRON_NUM_SHARDS unset.
InitModes(shards, modes) ==
    /\ num_shards \in shards
    /\ published = <<>>
    /\ bus = <<>>
    /\ cursor = [c \in Consumers |-> 0]
    /\ received = [c \in Consumers |-> <<>>]
    /\ lagged = [c \in Consumers |-> 0]
    /\ bus_closed = FALSE
    /\ routerPc = "recv"
    /\ routerTick = None
    /\ queues = [q \in QueueNames |-> <<>>]
    /\ enqueued = [q \in QueueNames |-> <<>>]
    /\ enginePc = "select"
    /\ engineDecision = None
    /\ instruments = [i \in {} |-> NewInstrumentState(i)]
    /\ processed = <<>>
    /\ lastPick = None
    /\ closed_polls = 0
    /\ decisions = <<>>
    /\ emittedDecisions = 0
    /\ next_uuid = 1
    /\ coordinatorIntent = None
    /\ intents = <<>>
    /\ simulation_mode \in modes
    /\ gatewayPc = "run"
    /\ gatewayOrder = None
    /\ gatewayExec = None
    /\ store_failed = {}
    /\ hadron_order_intents = <<>>
    /\ hadron_order_executions = <<>>
    /\ executions = <<>>
    /\ emitted = <<>>
    /\ tick_batch = <<>>
    /\ recorderPc = "run"
    /\ flushing = None
    /\ hadron_ticks = <<>>
    /\ dropped = 0
    /\ ingestPc = [i \in Ingestors |-> "connect"]
    /\ sleepLeft = [i \in Ingestors |-> 0]
    /\ sessions = [i \in Ingestors |-> 0]
    /\ frames = [i \in Ingestors |-> 0]
    /\ authenticated = [i \in Ingestors |-> FALSE]
    /\ subscribed = [i \in Ingestors |-> FALSE]
    /\ heard = [i \in Ingestors |-> {}]
    /\ wire = [i \in Ingestors |-> <<>>]
    /\ forwarded = [i \in Ingestors |-> 0]
    /\ trades_read = [i \in Ingestors |-> 0]
    /\ pending = <<>>
    /\ shutdown_requested = FALSE
    /\ normPc = "run"
    /\ normalizing = None
    /\ raw_closed = FALSE
    /\ raw_handled = 0
    /\ symbol_cache = [t \in LookupTickers |-> None]
    /\ instruments_table = [t \in StoredTickers |-> {1}]
    /\ resolved = [t \in LookupTickers |-> {}]
    /\ last_normalize = None
    /\ env = [v \in EnvVars |-> None]
    /\ api_keys = None
    /\ kalshi_keys = None

\* HADRON_SIMULATION_MODE unset: simulation.
InitWith(shards) == InitModes(shards, {TRUE})

Init == InitWith({1})

\* ------------------------------------------------- priority specification
\* Router and Engine of shard 0 fed ticks of every kind for one instrument.
PublishAnyKind ==
    /\ Publish(TickTypes, {1}, {FlatPrice}, MaxTicks)
    /\ UNCHANGED <<ingestVars, normVars, credVars, routerVars, engineVars, orderVars, recorderVars>>

NextPriority == PublishAnyKind \/ RouterRecv \/ RouterSend \/ EngineStep

SpecPriority == Init /\ [][NextPriority]_vars

\* --------------------------------------------------- sharding specification
\* The same stages under every HADRON_NUM_SHARDS, fed trades of every
\* instrument.
InitShard == InitWith(1..MaxShards)

PublishTrade ==
    /\ Publish({"Trade"}, Instruments, {FlatPrice}, MaxShardTicks)
    /\ UNCHANGED <<ingestVars, normVars, credVars, routerVars, engineVars, orderVars, recorderVars>>

NextShard == PublishTrade \/ RouterRecv \/ RouterSend \/ EngineStep

SpecShard == InitShard /\ [][NextShard]_vars

\* -------------------------------------------------------- bus specification
\* The Normalizer publishing trades of one instrument to both consumers of
\* the bus: the Router (with the Engine behind it) and the Recorder.
PublishToBoth ==
    /\ Publish({"Trade"}, {1}, {FlatPrice}, MaxTicks)
    /\ UNCHANGED <<ingestVars, normVars, credVars, routerVars, engineVars, orderVars, recorderVars>>

NextBus ==
    \/ PublishToBoth
    \/ RouterRecv
    \/ RouterSend
    \/ EngineStep
    \/ RecorderRecv
    \/ RecorderTimer
    \/ RecorderStore

SpecBus == Init /\ [][NextBus]_vars

\* ------------------------------------------------- pipeline specification
\* Every stage from the bus to the Recorder, all branches of its select!
\* included, fed trades of one instrument whose price alternates between
\* two values 20% apart, so that the strategy decides on every tick from
\* the fifth on and every channel of the order path fills.  The store
\* answers every statement, with success or with an error.
MaxPipelineTicks == 6

\* The price in cents of the k-th trade (from 0).
PipelinePrice(k) == IF k % 2 = 0 THEN 9000 ELSE 11000

\* The Normalizer publishes the next trade; the send never waits for a
\* consumer.
PublishPriced ==
    /\ Publish({"Trade"}, {1}, {PipelinePrice(Len(published))}, MaxPipelineTicks)
    /\ UNCHANGED <<ingestVars, normVars, credVars, routerVars, engineVars, orderVars, recorderVars>>

NextPipeline ==
    \/ PublishPriced
    \/ RouterRecv
    \/ RouterSend
    \/ EngineStep
    \/ EngineSend
    \/ CoordinatorStep
    \/ CoordinatorSend
    \/ GatewayStep
    \/ GatewayStore
    \/ GatewaySend
    \/ RecorderExecution
    \/ RecorderRecv
    \/ RecorderTimer
    \/ RecorderStore

\* Every spawned task that can step is polled; select! in the Recorder
\* picks among its ready branches at random, so a ready execution branch
\* is taken; and the store answers every statement it is sent.
SpecPipeline ==
    /\ Init
    /\ [][NextPipeline]_vars
    /\ WF_vars(RouterRecv \/ RouterSend)
    /\ WF_vars(EngineStep \/ EngineSend)
    /\ WF_vars(CoordinatorStep \/ CoordinatorSend)
    /\ WF_vars(GatewayStep \/ GatewayStore \/ GatewaySend)
    /\ WF_vars(RecorderExecution \/ RecorderStore)

\* ------------------------------------------------------ order specification
\* Decisions of any kind through the Coordinator and the Gateway to the
\* Recorder, which also records ticks and may fail a flush and return.
PublishToRecorder ==
    /\ Publish({"Trade"}, {1}, {FlatPrice}, MaxOrderTicks)
    /\ UNCHANGED <<ingestVars, normVars, credVars, routerVars, engineVars, orderVars, recorderVars>>

NextOrders ==
    \/ StrategyDecides
    \/ CoordinatorStep
    \/ CoordinatorSend
    \/ GatewayStep
    \/ GatewayStore
    \/ GatewaySend
    \/ RecorderExecution
    \/ PublishToRecorder
    \/ RecorderRecv
    \/ RecorderTimer
    \/ RecorderStore

SpecOrders == Init /\ [][NextOrders]_vars

\* The same order path with HADRON_SIMULATION_MODE set either way.
InitAnyMode == InitModes({1}, BOOLEAN)

SpecModes == InitAnyMode /\ [][NextOrders]_vars

\* -------------------------------------------------- shutdown specification
\* The bus specification with the bus closing at any moment: the Router and
\* the Recorder see Closed, the Engine is left with closed queues.
NextShutdown ==
    \/ PublishToBoth
    \/ CloseBus
    \/ RouterRecv
    \/ RouterSend
    \/ RouterClosed
    \/ EngineStep
    \/ EnginePollClosed
    \/ RecorderRecv
    \/ RecorderTimer
    \/ RecorderStore
    \/ RecorderClosed

SpecShutdown == Init /\ [][NextShutdown]_vars

\* ------------------------------------------------ timed flush specification
\* The Recorder on a responsive store (every flush commits), with a timer
\* that keeps firing: while the Recorder runs, its interval elapses every
\* five seconds and select! takes a ready branch.
RecorderStoreResponsive == RecorderStore /\ recorderPc' # "failed"

NextTimed ==
    \/ PublishToBoth
    \/ RouterRecv
    \/ RouterSend
    \/ EngineStep
    \/ RecorderRecv
    \/ RecorderTimer
    \/ RecorderStoreResponsive

SpecTimed ==
    /\ Init
    /\ [][NextTimed]_vars
    /\ WF_vars(RecorderTimer)
    /\ WF_vars(RecorderStoreResponsive)

\* ---------------------------------------------------- ingest specification
\* The equities ingestor and one prediction-market ingestor against servers
\* that may send anything and connections that may fail at any point.
NextIngest ==
    \/ EquitiesConnect
    \/ EquitiesText
    \/ EquitiesResume
    \/ PredictionConnect
    \/ PredictionSubscribed
    \/ PredictionText
    \/ PredictionSent
    \/ IngestControl
    \/ IngestPong
    \/ Elapse
    \/ IngestWake

SpecIngest == Init /\ [][NextIngest]_vars

\* ---------------------------------------------- cancellation specification
\* The same ingestors, with a shutdown requested at any moment.
NextCancel ==
    \/ EquitiesConnect
    \/ EquitiesText
    \/ EquitiesResume
    \/ PredictionConnect
    \/ PredictionSubscribed
    \/ PredictionText
    \/ PredictionSent
    \/ IngestControl
    \/ IngestPong
    \/ Elapse
    \/ IngestWake
    \/ RaiseCancellation

SpecCancel == Init /\ [][NextCancel]_vars

\* The Engine with the reference strategy, fed trades of varying prices.
NextStrategy == RouterSendsTrade \/ EngineStep

SpecStrategy == Init /\ [][NextStrategy]_vars

\* The Engine fed trades and quotes of one instrument through the Fast
\* and Warm queues, long enough for the history to evict.
NextHistory == RouterSendsMixed \/ EngineStep

SpecHistory == Init /\ [][NextHistory]_vars

\* The Engine fed trades of two instruments, long enough for a decision on
\* one while the other has state.
NextIsolation == RouterSendsTwoPrices \/ EngineStep

SpecIsolation == Init /\ [][NextIsolation]_vars

\* Credential discovery at start-up, for every environment.
NextCredentials == SetEnv \/ DiscoverEquitiesKeys \/ DiscoverPredictionKeys

SpecCredentials == Init /\ [][NextCredentials]_vars

\* The Normalizer with the store it queries: raw events of every shape
\* arrive, the rows of the instruments table change, the raw channel closes.
NextNormalize ==
    \/ NormalizerRecv
    \/ NormalizerStore
    \/ StoreChange
    \/ CloseRaw
    \/ NormalizerClosed

SpecNormalize == Init /\ [][NextNormalize]_vars

\* ---------------------------------------------------------------- claims
\* The timestamps of the processed ticks that came from queue q, in order.
RECURSIVE ProcessedFrom(_, _)
ProcessedFrom(h, q) ==
    IF h = <<>> THEN <<>>
    ELSE IF Head(h).queue = q
         THEN <<Head(h).timestamp>> \o ProcessedFrom(Tail(h), q)
         ELSE ProcessedFrom(Tail(h), q)

\* C1: strict priority.  Whenever the engine takes a tick while the Fast
\* queue holds one, the tick it takes comes from the Fast queue.
C1_FastFirst ==
    lastPick # None =>
        ("Fast" \in lastPick[1].ready => lastPick[1].queue = "Fast")

\* C2: Warm over Cold.  With Fast empty and Warm non-empty the engine takes
\* a Warm tick, and it takes a Cold tick only when Fast and Warm are empty.
C2_WarmBeforeCold ==
    lastPick # None =>
        LET pick == lastPick[1] IN
        /\ ("Fast" \notin pick.ready /\ "Warm" \in pick.ready
                => pick.queue = "Warm")
        /\ (pick.queue = "Cold"
                => "Fast" \notin pick.ready /\ "Warm" \notin pick.ready)

\* C3: shard ownership.  Every tick the engine of shard 0 processed hashes
\* to shard 0 under the configured shard count.
C3_ShardOwnership ==
    \A i \in 1..Len(processed) :
        assign_shard(processed[i], num_shards) = EngineShardId

\* C9: per-priority FIFO.  The ticks the engine processed from one queue
\* are, in order, the first ticks the Router sent to that queue.
C9_PerPriorityFifo ==
    \A q \in QueueNames :
        LET done == ProcessedFrom(processed, q) IN
        /\ Len(done) <= Len(enqueued[q])
        /\ done = SubSeq(enqueued[q], 1, Len(done))

\* C9 witness: two ticks of one queue were processed, with a tick of
\* another queue still waiting behind an older one.
C9_Witness ==
    \E q \in QueueNames :
        /\ Len(ProcessedFrom(processed, q)) >= 2
        /\ \E r \in QueueNames \ {q} : Len(ProcessedFrom(processed, r)) >= 1

\* C10: Cold backpressure isolation.  The Router never waits for room in a
\* full Cold queue while a trade is pending on the bus and the Fast queue
\* has room.
C10_ColdNeverStallsFast ==
    ~ /\ routerPc = "send"
      /\ classify_priority(routerTick[1]) = "Cold"
      /\ ~HasRoom("Cold")
      /\ HasRoom("Fast")
      /\ BusPending("router")
      /\ BusRecv("router").kind = "Ok"
      /\ BusRecv("router").tick.tick_type = "Trade"

\* The sequence has no element twice.
NoDuplicates(h) == \A i, j \in 1..Len(h) : h[i] = h[j] => i = j

\* The sequence of numbers increases strictly.
Increasing(h) == \A i, j \in 1..Len(h) : i < j => h[i] < h[j]

\* The batch of the flush in progress, if any.
InFlight == IF flushing = None THEN <<>> ELSE flushing[1].batch

\* C5: Recorder row conservation.  Every tick the Recorder accepted is
\* exactly one of: a row of the tick table, still in the buffer, in the
\* batch of the flush in progress, or in a batch a failed flush discarded.
\* So whenever the buffer is empty and no flush is in progress, the rows
\* number the accepted ticks minus the dropped ones; no tick is a row twice.
C5_RowConservation ==
    /\ Len(hadron_ticks) + Len(tick_batch) + Len(InFlight) + dropped
            = Len(received["recorder"])
    /\ ((tick_batch = <<>> /\ flushing = None) =>
            Len(hadron_ticks) = Len(received["recorder"]) - dropped)
    /\ NoDuplicates(hadron_ticks)
    /\ \A i \in 1..Len(hadron_ticks) :
          \E j \in 1..Len(received["recorder"]) :
              hadron_ticks[i].timestamp = received["recorder"][j]

\* C5 witness: the Recorder skipped ticks by a lag, a flush committed, and
\* a later flush failed and dropped ticks.
C5_Witness ==
    /\ lagged["recorder"] >= 1
    /\ Len(hadron_ticks) >= 1
    /\ dropped >= 1
    /\ recorderPc = "failed"

\* C6: the publish never waits.  While the Normalizer has a tick to publish,
\* its send on the bus can complete, whatever the consumers have read.
C6_PublishNeverBlocks ==
    Len(published) < MaxTicks => ENABLED PublishToBoth

\* C6 witness: the bus is full and neither consumer has read anything, and a
\* further tick was published all the same.
C6_Witness ==
    /\ Len(published) > BusCap
    /\ cursor["router"] = 0
    /\ cursor["recorder"] = 0

\* C7: lag handling.  A consumer more than the capacity behind gets, at its
\* next receive, Lagged(n) with n the number of ticks it skipped; its cursor
\* is then at the oldest retained tick, it got no tick in that step and it
\* keeps running.
C7_LagHandling ==
    [][\A c \in Consumers :
        /\ (cursor'[c] # cursor[c] /\ Len(published) - cursor[c] > BusCap)
              => lagged'[c] - lagged[c] = Len(published) - BusCap - cursor[c]
        /\ lagged'[c] # lagged[c] =>
              /\ lagged'[c] - lagged[c] = cursor'[c] - cursor[c]
              /\ cursor'[c] = Len(published) - BusCap
              /\ received'[c] = received[c]
              /\ published' = published
              /\ c = "router" => routerPc' = "recv"
              /\ c = "recorder" => recorderPc' = "run"
        /\ received'[c] # received[c] =>
              /\ received'[c] = Append(received[c], cursor[c])
              /\ cursor[c] >= Len(published) - BusCap
      ]_vars

\* C7 witness: both consumers were lagged and each then received the tick
\* that was the oldest one retained.
C7_Witness ==
    \A c \in Consumers :
        /\ lagged[c] > 0
        /\ received[c] # <<>>
        /\ received[c][Len(received[c])] >= lagged[c]

\* C8: fan-out order.  What a consumer received is a subsequence of the
\* publication sequence, in order and without duplicates, and the ticks
\* missing below its cursor number exactly those its lag signals reported.
C8_FanoutOrder ==
    \A c \in Consumers :
        /\ Increasing(received[c])
        /\ \A i \in 1..Len(received[c]) :
              /\ received[c][i] < cursor[c]
              /\ published[received[c][i] + 1].timestamp = received[c][i]
        /\ Len(received[c]) + lagged[c] = cursor[c]

\* C8 witness: a consumer received ticks on both sides of a gap.
C8_Witness ==
    \E c \in Consumers :
        \E i \in 1..(Len(received[c]) - 1) :
            received[c][i + 1] > received[c][i] + 1

\* The number of entries of h that reference intent id.
ReferencesTo(h, id) == Cardinality({k \in 1..Len(h) : h[k].order_intent_id = id})

\* C4: in simulation mode, once the Gateway is done with an intent, every
\* persisted intent has exactly one persisted execution and exactly one
\* execution emitted downstream.
C4_ExactlyOneExecution ==
    (simulation_mode /\ gatewayOrder = None /\ gatewayExec = None) =>
        \A i \in 1..Len(hadron_order_intents) :
            /\ ReferencesTo(hadron_order_executions, hadron_order_intents[i].id) = 1
            /\ ReferencesTo(emitted, hadron_order_intents[i].id) = 1

\* The executions the Gateway has handed or is handing downstream.
HandedDownstream == emitted \o gatewayExec

\* C11: an intent for which persisting the intent or the execution failed
\* has no execution emitted or awaiting emission and is no longer being
\* processed, and the Gateway's loop has not exited: it is inside
\* process_order exactly while a call waits for the store, and otherwise,
\* with an intent queued and no send pending, it takes the next intent.
C11_StorageFailureAbortsOrder ==
    /\ \A id \in store_failed : ReferencesTo(HandedDownstream, id) = 0
    /\ gatewayPc \in {"run", "process"}
    /\ (gatewayPc = "process") = (gatewayOrder # None)
    /\ gatewayOrder # None => gatewayOrder[1].intent.id \notin store_failed
    /\ (gatewayPc = "run" /\ gatewayExec = None /\ intents # <<>>) => ENABLED GatewayStep

\* A first order aborted by a store failure, a later one executed and emitted.
C11_Witness ==
    /\ store_failed # {}
    /\ \E k \in 1..Len(emitted) :
          \A id \in store_failed : emitted[k].order_intent_id > id

\* The ids of the persisted intents.
PersistedIntentIds == {hadron_order_intents[k].id : k \in 1..Len(hadron_order_intents)}

\* The execution process_order has built and is persisting, if any.
BeingPersisted == IF gatewayOrder = None THEN <<>> ELSE gatewayOrder[1].execution

\* C12: every execution that was built, persisted, is awaiting emission
\* or was emitted refers to an intent whose row is already persisted.
C12_IntentPersistedFirst ==
    \A h \in {BeingPersisted, hadron_order_executions, gatewayExec, executions, emitted} :
        \A k \in 1..Len(h) : h[k].order_intent_id \in PersistedIntentIds

\* An intent row without an execution (the execution insert failed after the
\* intent insert) next to an intent with its execution emitted.
C12_Witness ==
    /\ \E k \in 1..Len(hadron_order_intents) :
          ReferencesTo(hadron_order_executions, hadron_order_intents[k].id) = 0
    /\ \E k \in 1..Len(emitted) : emitted[k].order_intent_id \in PersistedIntentIds

\* C13: whenever the Recorder waits in select! for its next event, the
\* buffer holds fewer than batch_size ticks: the tick that fills the buffer
\* is flushed with it, and the timer flushes whatever is buffered.
C13_BufferBelowBatchSize ==
    /\ Len(tick_batch) < BatchSize
    /\ recorderPc = "run" => ENABLED RecorderTimer

\* A full batch became rows and the buffer is filling again.
C13_Witness ==
    /\ Len(hadron_ticks) = BatchSize
    /\ Len(tick_batch) = BatchSize - 1
    /\ recorderPc = "run"

\* The timestamps of the rows of the tick table, in order.
RowTimestamps == [k \in 1..Len(hadron_ticks) |-> hadron_ticks[k].timestamp]

\* C14: with a responsive store, ticks in the buffer (fewer than batch_size)
\* lead to a state where the buffer is empty and exactly the accepted ticks
\* are rows, also when no further tick arrives.
C14_TimedFlush ==
    (tick_batch # <<>>) ~> (tick_batch = <<>> /\ RowTimestamps = received["recorder"])

\* One tick accepted, below batch_size, no other accepted: it is a row.
C14_Witness ==
    /\ Len(received["recorder"]) = 1
    /\ RowTimestamps = received["recorder"]
    /\ tick_batch = <<>>
    /\ ~BusPending("recorder")

\* C15: the Recorder has returned Ok from run on a closed bus only after
\* its final flush: the buffer is empty and every accepted tick is a row.
C15_FinalFlush ==
    recorderPc = "done" =>
        /\ bus_closed
        /\ tick_batch = <<>>
        /\ RowTimestamps = received["recorder"]

\* The Recorder exited with a partial batch among the rows.
C15_Witness ==
    /\ recorderPc = "done"
    /\ Len(hadron_ticks) % BatchSize = 1

\* Every queue of the Engine is closed and drained.
EngineInputsClosed == ClosedBranches = QueueNames

\* C17: a stage whose inputs are closed and drained leaves its run loop.
\* The Router's next step on a closed, drained bus ends run; the Recorder
\* can take its Closed branch; and a turn of the Engine's loop that finds
\* Fast, Warm and Cold all closed and drained ends run instead of going
\* round again.
C17_DrainAndExit ==
    [][/\ (routerPc = "recv" /\ BusClosedFor("router") /\ routerPc' # routerPc)
            => routerPc' = "done"
       /\ (recorderPc = "run" /\ BusClosedFor("recorder")) => ENABLED RecorderClosed
       /\ (enginePc = "select" /\ EngineInputsClosed /\ closed_polls' # closed_polls)
            => enginePc' = "done"]_vars

\* C16: once the root cancellation signal is raised, no ingestor calls
\* connect_and_stream again and none goes back to connecting.
C16_CancellationStopsIngestors ==
    [][shutdown_requested =>
          \A i \in Ingestors :
              /\ sessions'[i] = sessions[i]
              /\ ingestPc'[i] = "connect" => ingestPc[i] = "connect"]_vars

\* C18: whenever a call of connect_and_stream ends (a failed connect, or a
\* session left on a close, an error, the end of the stream or a failed
\* pong) the ingestor starts a sleep of the full backoff; it goes back to
\* connecting only from a sleep that has run out; and a sleeping ingestor
\* always has a way on (time passes, then it wakes): it never stops.
C18_ReconnectAfterBackoff ==
    [][\A i \in Ingestors :
          /\ (ingestPc[i] # "sleep" /\ ingestPc'[i] = "sleep")
                => sleepLeft'[i] = ReconnectBackoffSecs
          /\ (ingestPc[i] # "connect" /\ ingestPc'[i] = "connect")
                => (ingestPc[i] = "sleep" /\ sleepLeft[i] = 0)
          /\ (ingestPc[i] \in InSession /\ ingestPc'[i] \notin InSession)
                => ingestPc'[i] = "sleep"
          /\ (ingestPc[i] = "sleep" /\ sleepLeft[i] > 0) => ENABLED Elapse
          /\ (ingestPc[i] = "sleep" /\ sleepLeft[i] = 0) => ENABLED IngestWake]_vars

\* Both ingestors stream on their second session, reached through a sleep.
C18_Witness ==
    \A i \in Ingestors : sessions[i] = 2 /\ ingestPc[i] = "stream"

\* The writes of the given action on the current equities session.
EquitiesWrites(action) ==
    {k \in 1..Len(wire[Equities]) : wire[Equities][k].msg.action = action}

\* C19: on an equities session an auth request is written only once the
\* server's "connected" was received, and a subscription only once
\* "auth_success" was received.
C19_HandshakeOrder ==
    /\ EquitiesWrites("auth") # {} => "connected" \in heard[Equities]
    /\ EquitiesWrites("subscribe") # {} =>
          ("auth_success" \in heard[Equities] /\ authenticated[Equities])
    /\ subscribed[Equities] => EquitiesWrites("subscribe") # {}

\* The full handshake: auth written after "connected", then the
\* subscription after "auth_success".
C19_Witness ==
    /\ Len(wire[Equities]) = 2
    /\ wire[Equities][1] = [msg |-> AuthRequest, result |-> "Ok"]
    /\ wire[Equities][2].msg.action = "subscribe"
    /\ subscribed[Equities]

\* Ingestor i has sent its subscription on the current session: the write
\* of the subscription returned Ok.
HasSubscribed(i) ==
    \E k \in 1..Len(wire[i]) :
        wire[i][k].msg = Subscription(i) /\ wire[i][k].result = "Ok"

\* C20: on every session, first or later, each subscription an ingestor
\* writes is the one for its fixed ticker set or channel, and the ingestor
\* has sent it before the session forwards a raw event (the prediction
\* market before it reads at all).
C20_Resubscription ==
    \A i \in Ingestors :
        /\ \A k \in 1..Len(wire[i]) :
              wire[i][k].msg.action = "subscribe" => wire[i][k].msg = Subscription(i)
        /\ forwarded[i] > 0 => HasSubscribed(i)
        /\ (i = PredictionMarket /\ ingestPc[i] \in {"stream", "send", "pong"})
              => HasSubscribed(i)


\* C21: once the server has reported max_connections on an equities session,
\* as a status or inside an error message, that session is over: it is not
\* reading messages any more.
C21_MaxConnectionsTerminal ==
    "max_connections" \in heard[Equities] => ingestPc[Equities] \notin InSession

\* C22: once a message is handled, every trade payload received on an
\* authenticated equities session has been forwarded as one raw event, and
\* nothing else has been forwarded.
C22_EveryTradeForwarded ==
    pending = <<>> => forwarded[Equities] = trades_read[Equities]


\* C23: a prediction-market ticker event with yes_bid = 45 and
\* yes_ask = 47 (cents) is not discarded as an unknown source: the
\* Normalizer returns one Quote tick for it, whose price is 46 cents, the
\* middle of the two.
C23_PredictionTickerNormalized ==
    (last_normalize # None
        /\ last_normalize[1].raw = KalshiTicker("X", YesBid, YesAsk))
    => /\ last_normalize[1].result.tick # None
       /\ last_normalize[1].result.tick[1].tick_type = "Quote"
       /\ last_normalize[1].result.tick[1].price = (YesBid + YesAsk) \div 2

\* A raw trade the Normalizer cannot turn into a tick: sym, p or t is
\* missing, or the instrument lookup failed.
BadEvent(n) ==
    /\ n.raw.source = "polygon"
    /\ \/ n.raw.sym = None
       \/ n.raw.p = None
       \/ n.raw.t = None
       \/ (n.lookup # None /\ n.lookup[1].kind = "Err")

\* A step in which normalize returned: at once from the receive, or after
\* an answer of the store.
NormalizeReturned ==
    /\ raw_handled' # raw_handled \/ normPc = "lookup"
    /\ normPc' # "lookup"

\* C24: a bad raw event puts no tick on the bus and leaves the Normalizer
\* running; the Normalizer's loop ends only when the raw channel is closed.
C24_NormalizerNeverHalts ==
    [][/\ (normPc' = "done" => raw_closed')
       /\ (NormalizeReturned /\ BadEvent(last_normalize'[1]))
             => (published' = published /\ normPc' = "run")]_vars

C24_Witness ==
    /\ raw_handled = MaxRaw
    /\ normPc = "run"
    /\ BadEvent(last_normalize[1])
    /\ last_normalize[1].result.kind = "Err"
    /\ published # <<>>

\* C25: all successful resolutions of one ticker returned the same id, and
\* a cached mapping is never changed or removed.
C25_ResolveIdempotent ==
    [][/\ \A t \in LookupTickers : Cardinality(resolved'[t]) <= 1
       /\ \A t \in LookupTickers :
             symbol_cache[t] # None => symbol_cache'[t] = symbol_cache[t]]_vars

C25_Witness ==
    /\ raw_handled = MaxRaw
    /\ symbol_cache["AAPL"] # None
    /\ ExactRow(instruments_table, "AAPL") # None
    /\ ExactRow(instruments_table, "AAPL") # symbol_cache["AAPL"]
    /\ last_normalize[1].raw.sym = Some("AAPL")
    /\ last_normalize[1].lookup # None
    /\ last_normalize[1].lookup[1].id = symbol_cache["AAPL"]

\* C26: every tick the Normalizer published has a non-negative price and
\* an instrument id greater than 0.
C26_EmittedTickValid ==
    \A k \in 1..Len(published) :
       published[k].price >= 0 /\ published[k].instrument_id > 0


\* The decision the Engine's turn of this step produced, if any: sent on
\* the decision channel or held for a send that waits.
StepDecision ==
    IF enginePc = "select" /\ enginePc' = "send" THEN engineDecision'
    ELSE IF Len(decisions') > Len(decisions)
    THEN Some(decisions'[Len(decisions')])
    ELSE None

\* The tick the Engine's turn of this step processed, with the ticks of
\* its instrument processed so far and the prices of the last five.
StepTick == processed'[Len(processed')]
TicksOfInstrument(id) ==
    Cardinality({k \in 1..Len(processed') : processed'[k].instrument_id = id})
StepHistory == instruments'[StepTick.instrument_id].price_history
StepPrice == StepHistory[Len(StepHistory)][2]

\* price > mean * 1.01 and price < mean * 0.99, the mean being a fifth of
\* the sum of the last five prices.
AboveBand(price, history) == price * 500 > SumPrices(history) * 101
BelowBand(price, history) == price * 500 < SumPrices(history) * 99

\* C27: a tick that is among the first 4 of its instrument yields no
\* decision; a later one yields a decision only if its price is more than
\* 1% above or below the mean of the instrument's last 5 prices.
C27_SmaWarmUp ==
    [][(processed' # processed /\ StepDecision # None)
          => /\ TicksOfInstrument(StepTick.instrument_id) >= 5
             /\ Len(StepHistory) = 5
             /\ \/ AboveBand(StepPrice, StepHistory)
                \/ BelowBand(StepPrice, StepHistory)]_vars

C27_Witness ==
    /\ Len(processed) = MaxStrategyTicks
    /\ decisions # <<>>
    /\ \E id \in StrategyInstruments :
          /\ id \in DOMAIN instruments
          /\ instruments[id].tick_count = 5

StepDecisionType ==
    IF StepDecision = None THEN None ELSE Some(StepDecision[1].decision_type)

\* C28: once the 5-point mean m is there, a tick of price p yields Buy of
\* 10 without limit iff p > m * 1.01, Sell of 10 without limit iff
\* p < m * 0.99, and otherwise no decision.
C28_SmaDecisionRule ==
    [][(processed' # processed /\ Len(StepHistory) = 5)
          => StepDecisionType =
                IF AboveBand(StepPrice, StepHistory)
                THEN Some([kind |-> "Buy", quantity |-> 10, limit_price |-> None])
                ELSE IF BelowBand(StepPrice, StepHistory)
                THEN Some([kind |-> "Sell", quantity |-> 10, limit_price |-> None])
                ELSE None]_vars

C28_Witness ==
    /\ 1 \in DOMAIN instruments
    /\ instruments[1].sma_5 # None
    /\ instruments[1].last_price[1] * 1000 = instruments[1].sma_5[1] * 101
    /\ decisions = <<>>
    /\ enginePc = "select"


\* The intent the Coordinator's turn of this step produced, if any: sent
\* on the intent channel or held for a send that waits.
StepIntent ==
    IF coordinatorIntent = None /\ coordinatorIntent' # None
    THEN coordinatorIntent'
    ELSE IF Len(intents') > Len(intents) THEN Some(intents'[Len(intents')])
    ELSE None

\* C29: the Coordinator turns a Buy or Sell decision into exactly one
\* intent with the decision's side, instrument id, strategy id, timestamp
\* and quantity, of type Limit with the decision's limit price if it has
\* one and else Market without a limit price; Hold and NoAction give none.
C29_CoordinatorProjection ==
    [][(decisions # <<>> /\ decisions' = Tail(decisions))
          => LET d == Head(decisions) IN
             IF d.decision_type.kind \in {"Buy", "Sell"}
             THEN /\ StepIntent # None
                  /\ StepIntent[1].side = d.decision_type.kind
                  /\ StepIntent[1].instrument_id = d.instrument_id
                  /\ StepIntent[1].strategy_id = d.strategy_id
                  /\ StepIntent[1].timestamp = d.timestamp
                  /\ StepIntent[1].quantity = d.decision_type.quantity
                  /\ StepIntent[1].limit_price = d.decision_type.limit_price
                  /\ StepIntent[1].order_type =
                        IF d.decision_type.limit_price # None THEN "Limit"
                        ELSE "Market"
             ELSE StepIntent = None /\ UNCHANGED <<intents, coordinatorIntent>>]_vars

C29_Witness ==
    /\ \E k \in 1..Len(hadron_order_intents) :
          hadron_order_intents[k].order_type = "Limit"
    /\ emittedDecisions = MaxDecisions
    /\ decisions = <<>>
    /\ intents = <<>>


\* C30: with simulation mode off, the Gateway takes every intent off the
\* channel and goes on, and no step writes an intent row or an execution
\* row or emits an execution.
C30_LiveModeNoOp ==
    [][~simulation_mode
          => /\ intents # <<>> => ENABLED GatewayStep
             /\ (intents # <<>> /\ intents' = Tail(intents)) => gatewayPc' = "run"
             /\ hadron_order_intents' = <<>>
             /\ hadron_order_executions' = <<>>
             /\ gatewayExec' = None
             /\ executions' = <<>>
             /\ emitted' = <<>>]_vars

C30_Witness ==
    /\ ~simulation_mode
    /\ next_uuid = MaxDecisions + 1
    /\ decisions = <<>>
    /\ coordinatorIntent = None
    /\ intents = <<>>
    /\ gatewayPc = "run"


\* C31: neither the list of equities keys nor the list of
\* prediction-market credentials holds an empty key or an empty key path.
C31_NoEmptyCredential ==
    /\ api_keys # None => \A k \in 1..Len(api_keys[1]) : api_keys[1][k] # ""
    /\ kalshi_keys # None =>
          \A k \in 1..Len(kalshi_keys[1]) :
             kalshi_keys[1][k][1] # "" /\ kalshi_keys[1][k][2] # ""


\* The ticks of instrument id the Engine has processed, in order, and the
\* last n of a sequence.
ProcessedOf(id) == SelectSeq(processed, LAMBDA r : r.instrument_id = id)
LastOf(seq, n) == SubSeq(seq, Len(seq) - n + 1, Len(seq))
RECURSIVE SumOfPrices(_)
SumOfPrices(seq) ==
    IF seq = <<>> THEN 0 ELSE Head(seq).price + SumOfPrices(Tail(seq))

\* C32: after k ticks of an instrument, its counter is k, its last price
\* and last timestamp are those of the k-th tick, and its history is the
\* last min(k, 5) (timestamp, price) pairs in processing order.
C32_InstrumentStateAfterTicks ==
    \A id \in DOMAIN instruments :
       LET ticks == ProcessedOf(id)
           k == Len(ticks)
           n == IF k < 5 THEN k ELSE 5
           kept == LastOf(ticks, n)
           state == instruments[id] IN
       /\ k >= 1
       /\ state.tick_count = k
       /\ state.last_price = Some(ticks[k].price)
       /\ state.last_timestamp = Some(ticks[k].timestamp)
       /\ Len(state.price_history) = n
       /\ \A j \in 1..n :
             state.price_history[j] = <<kept[j].timestamp, kept[j].price>>

C32_Witness ==
    /\ 1 \in DOMAIN instruments
    /\ instruments[1].tick_count = MaxHistoryTicks
    /\ \E j \in 1..Len(processed) : processed[j].queue = "Warm"
    /\ \E j \in 1..(Len(processed) - 1) :
          processed[j].timestamp > processed[j + 1].timestamp
    /\ instruments[1].price_history[1][2] # instruments[1].price_history[5][2]

\* C33: the mean is absent while fewer than 5 ticks of the instrument were
\* processed, and afterwards it is a fifth of the sum of the prices of the
\* last 5 ticks processed (sma_5 is counted in tenths of a cent).
C33_RollingMean ==
    \A id \in DOMAIN instruments :
       LET ticks == ProcessedOf(id) IN
       IF Len(ticks) < 5 THEN instruments[id].sma_5 = None
       ELSE /\ instruments[id].sma_5 # None
            /\ instruments[id].sma_5[1] * 5 = 10 * SumOfPrices(LastOf(ticks, 5))

C33_Witness ==
    /\ 1 \in DOMAIN instruments
    /\ Len(ProcessedOf(1)) > 5
    /\ ProcessedOf(1)[1].price # ProcessedOf(1)[Len(ProcessedOf(1))].price
    /\ instruments[1].sma_5 # None


\* The persisted intent an execution refers to.
IntentOf(execution) ==
    CHOOSE intent \in {hadron_order_intents[k] : k \in 1..Len(hadron_order_intents)} :
        intent.id = execution.order_intent_id

\* The executions the Gateway has built: persisted, held for a send that
\* waits, in the channel, or sent.
BuiltExecutions ==
    UNION {{h[k] : k \in 1..Len(h)} :
              h \in {BeingPersisted, hadron_order_executions, gatewayExec,
                     executions, emitted}}

\* C34: the execution built for an intent has status Filled, venue
\* "simulation", the intent's instrument and quantity, the intent's limit
\* price if it has one and else the placeholder price, and a venue order
\* id formed from the intent id alone.
C34_SimulatedExecutionContent ==
    \A execution \in BuiltExecutions :
       LET intent == IntentOf(execution) IN
       /\ execution.status = "Filled"
       /\ execution.venue = "simulation"
       /\ execution.instrument_id = intent.instrument_id
       /\ execution.executed_quantity = intent.quantity
       /\ execution.executed_price =
             IF intent.limit_price # None THEN intent.limit_price[1]
             ELSE PlaceholderPrice
       /\ execution.venue_order_id = Some(<<"SIM-", intent.id>>)

\* A fill at the limit price and a fill at the placeholder price, both
\* persisted.
C34_Witness ==
    /\ \E k \in 1..Len(hadron_order_executions) :
          /\ IntentOf(hadron_order_executions[k]).limit_price # None
          /\ hadron_order_executions[k].executed_price # PlaceholderPrice
    /\ \E k \in 1..Len(hadron_order_executions) :
          IntentOf(hadron_order_executions[k]).limit_price = None

\* How many times timestamp ts was sent to queue q.
TimesEnqueued(q, ts) ==
    Cardinality({k \in 1..Len(enqueued[q]) : enqueued[q][k] = ts})

\* C35: every tick the Router received and is not still holding for a
\* send was sent once to the queue of its kind (Trade to Fast, Quote to
\* Warm, BookUpdate and Other to Cold) and to no other queue; a tick it
\* holds is in no queue yet.
C35_RouterClassification ==
    \A k \in 1..Len(received["router"]) :
       LET ts == received["router"][k]
           kind == published[ts + 1].tick_type
           expected == IF kind = "Trade" THEN "Fast"
                       ELSE IF kind = "Quote" THEN "Warm" ELSE "Cold"
           held == routerTick # None /\ routerTick[1].timestamp = ts IN
       /\ TimesEnqueued(expected, ts) = IF held THEN 0 ELSE 1
       /\ \A q \in QueueNames \ {expected} : TimesEnqueued(q, ts) = 0

\* A BookUpdate and an Other tick in the Cold queue's history next to a
\* trade in Fast and a quote in Warm.
C35_Witness ==
    /\ \E ts \in 0..(Len(published) - 1) :
          published[ts + 1].tick_type = "BookUpdate" /\ TimesEnqueued("Cold", ts) = 1
    /\ \E ts \in 0..(Len(published) - 1) :
          published[ts + 1].tick_type = "Other" /\ TimesEnqueued("Cold", ts) = 1
    /\ \E ts \in 0..(Len(published) - 1) :
          published[ts + 1].tick_type = "Trade" /\ TimesEnqueued("Fast", ts) = 1
    /\ \E ts \in 0..(Len(published) - 1) :
          published[ts + 1].tick_type = "Quote" /\ TimesEnqueued("Warm", ts) = 1

\* C36: an equities session forwards raw events only once auth_success
\* came on that same session: the authenticated flag is set by that
\* session's auth_success alone, no more raw events were forwarded than
\* trades arrived after it, and a session that has read nothing yet, the
\* first or a later one, is unauthenticated and has forwarded nothing.
C36_NoRawEventBeforeAuth ==
    /\ authenticated[Equities] => "auth_success" \in heard[Equities]
    /\ forwarded[Equities] > 0 => "auth_success" \in heard[Equities]
    /\ forwarded[Equities] <= trades_read[Equities]
    /\ frames[Equities] = 0
          => ~authenticated[Equities] /\ forwarded[Equities] = 0

\* A second session that read a trade without auth_success and forwarded
\* nothing.
C36_Witness ==
    /\ sessions[Equities] = 2
    /\ ingestPc[Equities] = "stream"
    /\ "T" \in heard[Equities]
    /\ "auth_success" \notin heard[Equities]
    /\ forwarded[Equities] = 0

\* A step in which flush_ticks returned Ok after a commit, and one in
\* which it returned an error, which run propagates.
FlushCommitted == Len(hadron_ticks') > Len(hadron_ticks)
FlushFailed == recorderPc = "flush" /\ recorderPc' = "failed"

\* C37: when flush_ticks returns, with success or with an error, the
\* buffer is empty; the ticks of a failed batch are not rows and are not
\* kept; and once a flush failed the Recorder has returned: it takes no
\* further tick off the bus and writes no further row.
C37_BufferEmptyAfterFlush ==
    [][/\ (FlushCommitted \/ FlushFailed) => tick_batch' = <<>>
       /\ FlushFailed => /\ hadron_ticks' = hadron_ticks
                         /\ dropped' = dropped + Len(InFlight)
                         /\ flushing' = None
       /\ recorderPc = "failed"
             => /\ UNCHANGED recorderVars
                /\ received'["recorder"] = received["recorder"]
                /\ cursor'["recorder"] = cursor["recorder"]]_vars

\* A batch was committed, a later flush failed and its ticks are gone,
\* and a tick waits on the bus for the Recorder that has returned.
C37_Witness ==
    /\ recorderPc = "failed"
    /\ tick_batch = <<>>
    /\ dropped >= 1
    /\ Len(hadron_ticks) = BatchSize
    /\ BusPending("recorder")

\* C38: every row of the executions table references an intent that is
\* a row of the intents table, and no two rows reference the same intent.
C38_ExecutionReferencesIntent ==
    \A k \in 1..Len(hadron_order_executions) :
       LET id == hadron_order_executions[k].order_intent_id IN
       /\ id \in PersistedIntentIds
       /\ ReferencesTo(hadron_order_executions, id) = 1

\* Two execution rows, for two intents.
C38_Witness ==
    /\ Len(hadron_order_executions) = 2
    /\ Len(hadron_order_intents) = 2
    /\ hadron_order_executions[1].order_intent_id
          # hadron_order_executions[2].order_intent_id

\* Some channel between the stages holds an item its consumer has not
\* taken; a channel whose receiver is gone holds nothing.
ChannelHoldsItem ==
    \/ BusPending("router")
    \/ BusPending("recorder") /\ ~ExecutionChannelClosed
    \/ \E q \in QueueNames : queues[q] # <<>>
    \/ decisions # <<>>
    \/ intents # <<>>
    \/ executions # <<>> /\ ~ExecutionChannelClosed

\* Some stage can take a step.
StageCanStep ==
    \/ ENABLED RouterRecv
    \/ ENABLED RouterSend
    \/ ENABLED EngineStep
    \/ ENABLED EngineSend
    \/ ENABLED CoordinatorStep
    \/ ENABLED CoordinatorSend
    \/ ENABLED GatewayStep
    \/ ENABLED GatewayStore
    \/ ENABLED GatewaySend
    \/ ENABLED RecorderExecution
    \/ ENABLED RecorderRecv
    \/ ENABLED RecorderStore

\* A stage that waits (for room in a full channel, or for the store) can
\* complete, or the stage it waits for can step or waits itself further
\* down the pipeline.  The Recorder, the last stage, waits for the store
\* only; so no set of stages waits in a circle.
NoCircularWait ==
    /\ routerPc = "send"
          => (ENABLED RouterSend \/ ENABLED EngineStep \/ enginePc = "send")
    /\ enginePc = "send"
          => (ENABLED EngineSend \/ ENABLED CoordinatorStep \/ coordinatorIntent # None)
    /\ coordinatorIntent # None
          => (ENABLED CoordinatorSend \/ ENABLED GatewayStep
                \/ gatewayPc = "process" \/ gatewayExec # None)
    /\ gatewayPc = "process" => ENABLED GatewayStore
    /\ gatewayExec # None
          => (ENABLED GatewaySend \/ ENABLED RecorderExecution \/ recorderPc = "flush")
    /\ recorderPc = "flush" => ENABLED RecorderStore

\* The step in which its consumer takes an item off the full channel (or,
\* for the execution channel, in which the Recorder returns and drops the
\* receiver) lets the stage that waits on that channel complete its send.
UnblockedByConsumer ==
    /\ (routerPc = "send" /\ routerPc' = "send"
          /\ LET q == classify_priority(routerTick[1]) IN
             Len(queues'[q]) < Len(queues[q]))
          => (ENABLED RouterSend)'
    /\ (enginePc = "send" /\ enginePc' = "send" /\ Len(decisions') < Len(decisions))
          => (ENABLED EngineSend)'
    /\ (coordinatorIntent # None /\ coordinatorIntent' # None
          /\ Len(intents') < Len(intents))
          => (ENABLED CoordinatorSend)'
    /\ (gatewayExec # None /\ gatewayExec' # None
          /\ (Len(executions') < Len(executions) \/ ExecutionChannelClosed'))
          => (ENABLED GatewaySend)'

\* No stage waits: none holds an item for a channel that may be full, and
\* none is suspended in the store.
NoStageWaits ==
    /\ routerPc # "send"
    /\ enginePc # "send"
    /\ coordinatorIntent = None
    /\ gatewayPc # "process"
    /\ gatewayExec = None
    /\ recorderPc # "flush"

\* C40: while a channel holds an item some stage can step; no stages wait
\* in a circle, every chain of waiting stages ending at a stage that can
\* step; the take of its consumer lets a waiting stage complete its send;
\* and every wait ends: again and again no stage waits at all, so each
\* stage that waits for room in a full channel, or for the store, gets to
\* complete.
C40_PipelineDeadlockFree ==
    /\ [](ChannelHoldsItem => StageCanStep)
    /\ []NoCircularWait
    /\ [][UnblockedByConsumer]_vars
    /\ []<>NoStageWaits

\* The Gateway waits for room in the full execution channel behind a
\* Recorder that waits for the store, with every tick routed and processed.
C40_Witness ==
    /\ gatewayExec # None
    /\ Len(executions) = ExecutionCap
    /\ recorderPc = "flush"
    /\ Len(processed) = MaxPipelineTicks

\* C39: a tick of instrument i creates or updates the state of i only:
\* the states of the other instruments are as before, the new state of i
\* is the update of its own old state (or of a fresh one), and a decision
\* carries the counter and the mean of i.
C39_PerInstrumentIsolation ==
    [][processed' # processed
          => LET i == StepTick.instrument_id IN
             /\ DOMAIN instruments' = DOMAIN instruments \cup {i}
             /\ \A j \in DOMAIN instruments \ {i} : instruments'[j] = instruments[j]
             /\ instruments'[i].instrument_id = i
             /\ instruments'[i].tick_count = TicksOfInstrument(i)
             /\ StepDecision # None
                   => /\ StepDecision[1].instrument_id = i
                      /\ StepDecision[1].metadata.tick_count = TicksOfInstrument(i)
                      /\ StepDecision[1].metadata.sma_5 = instruments'[i].sma_5[1]]_vars

C39_Witness ==
    /\ DOMAIN instruments = StrategyInstruments
    /\ decisions # <<>>
    /\ decisions[1].instrument_id = 2
    /\ instruments[1].tick_count > 0
    /\ instruments[1].last_price # instruments[2].last_price
    /\ processed[Len(processed)].instrument_id = 2
    /\ processed[Len(processed) - 1].instrument_id = 1

============================================================================
